---------------------------- MODULE Spec2Model ----------------------------
(***************************************************************************)
(* Model of the calendar pipeline of github-calendar-mcp-server            *)
(* (src/index.js): transformToCalendarEvents turns project items into      *)
(* calendar events, analyzeTeamWorkload folds events into per-assignee     *)
(* counters and ranks them.                                                *)
(*                                                                         *)
(* JavaScript values are modelled as follows.                              *)
(*   - A string that the code inspects character by character (a field     *)
(*     name, a login used as an object key) is a sequence of one-character *)
(*     strings.                                                            *)
(*   - A date string is a record [kind, y, m, d, h]: kind "iso" is an ISO  *)
(*     8601 UTC text, kind "text" is any text Date cannot parse, kind      *)
(*     "null" is null / undefined / the empty string.                      *)
(*   - A Date object is [tag |-> "date", valid, time]; time is in hours    *)
(*     since 1970-01-01T00:00Z, valid = FALSE is the Invalid Date (NaN     *)
(*     time value).  null is [tag |-> "null", ...].                        *)
(*   - An issue body is a sequence of tokens: the two markers, a newline,  *)
(*     text without parentheses, and a parenthesised group with its text.  *)
(***************************************************************************)
EXTENDS Integers, Sequences, FiniteSets, TLC

VARIABLES
    pc,         \* position of the tool call: "request", "events", "workload"
    items,      \* what fetchProjectItems returned for this call
    events,     \* result of transformToCalendarEvents
    now,        \* the instant new Date() yields in analyzeTeamWorkload
    workload,   \* result of analyzeTeamWorkload
    result,     \* what the call handler returned to the client
    zone,       \* time zone of the process, hours east of UTC
    eventsByDate, \* the day -> events mapping of createCalendarUI
    log,        \* the upstream requests of this call and how they ended
    request,    \* the call as it reaches the dispatcher of an entry point
    cursor,     \* the cursor of the loop of fetchProjectItemsGraphQL
    pages       \* the octokit.graphql requests of this call and their answers

vars == <<pc, items, events, now, workload, result, zone, eventsByDate, log,
          request, cursor, pages>>

---------------------------------------------------------------------------
(* Bounds of the model *)

MaxFieldValues == 2
MaxEvents == 3
MaxCalendarEvents == 2
MaxPages == 2
MaxIssues == 2
MaxRecords == 2
MaxNumbered == 2
MaxBacklog == 3

---------------------------------------------------------------------------
(* Strings as character sequences *)

UpperChars ==
    <<"A","B","C","D","E","F","G","H","I","J","K","L","M",
      "N","O","P","Q","R","S","T","U","V","W","X","Y","Z">>

LowerChars ==
    <<"a","b","c","d","e","f","g","h","i","j","k","l","m",
      "n","o","p","q","r","s","t","u","v","w","x","y","z">>

\* the characters that occur in the strings of the model
Alphabet ==
    {UpperChars[i] : i \in DOMAIN UpperChars} \cup {LowerChars[i] : i \in DOMAIN LowerChars}
        \cup {"0","1","2","3","4","5","6","7","8","9","/","-"," "}

ToLowerChar ==
    [c \in Alphabet |->
        IF \E i \in DOMAIN UpperChars : UpperChars[i] = c
        THEN LowerChars[CHOOSE i \in DOMAIN UpperChars : UpperChars[i] = c]
        ELSE c]

\* String.prototype.toLowerCase
toLowerCase(s) == [i \in DOMAIN s |-> ToLowerChar[s[i]]]

\* String.prototype.includes
includes(s, sub) ==
    \E i \in 0..(Len(s) - Len(sub)) : SubSeq(s, i + 1, i + Len(sub)) = sub

---------------------------------------------------------------------------
(* Dates *)

NullStr == [kind |-> "null", y |-> 0, m |-> 0, d |-> 0, h |-> 0]

IsoStr(y, m, d, h) == [kind |-> "iso", y |-> y, m |-> m, d |-> d, h |-> h]

\* a text no Date constructor parses, such as "TBD"
TextStr == [kind |-> "text", y |-> 0, m |-> 0, d |-> 0, h |-> 0]

NullDate == [tag |-> "null", valid |-> FALSE, time |-> 0]

InvalidDate == [tag |-> "date", valid |-> FALSE, time |-> 0]

\* JavaScript truthiness of a string-or-null
TruthyStr(s) == s.kind # "null"

\* JavaScript truthiness of a Date-or-null: every object is truthy, the
\* Invalid Date included
Truthy(v) == v.tag = "date"

\* days from 1970-01-01 to the civil date y-m-d (proleptic Gregorian)
DaysFromCivil(y, m, d) ==
    LET yy  == IF m <= 2 THEN y - 1 ELSE y
        era == yy \div 400
        yoe == yy - era * 400
        mp  == IF m > 2 THEN m - 3 ELSE m + 9
        doy == (153 * mp + 2) \div 5 + d - 1
        doe == yoe * 365 + yoe \div 4 - yoe \div 100 + doy
    IN  era * 146097 + doe - 719468

\* new Date(string): the time value of an ISO text, NaN for anything else
NewDate(s) ==
    IF s.kind = "iso" /\ s.m \in 1..12 /\ s.d \in 1..31 /\ s.h \in 0..23
    THEN [tag |-> "date", valid |-> TRUE,
          time |-> DaysFromCivil(s.y, s.m, s.d) * 24 + s.h]
    ELSE InvalidDate

\* a < b on Date objects: a comparison with NaN is false
DateLess(a, b) == a.valid /\ b.valid /\ a.time < b.time

---------------------------------------------------------------------------
(* Issue bodies *)

StartMarker == [t |-> "start", s |-> NullStr]   \* the text **Start Date:**
EndMarker   == [t |-> "end", s |-> NullStr]     \* the text **End Date:**
Newline     == [t |-> "nl", s |-> NullStr]
Text        == [t |-> "text", s |-> NullStr]    \* text with no ( ) or newline
Paren(s)    == [t |-> "paren", s |-> s]         \* ( s ), s not empty

\* body.match(/\*\*<marker>\*\*.*?\(([^)]+)\)/): the leftmost marker that is
\* followed on its own line by a parenthesised group, and the text of the
\* first such group ('.' does not match a newline)
Match(body, marker) ==
    LET GroupAfter(i) ==
            {j \in (i + 1)..Len(body) :
                /\ body[j].t = "paren"
                /\ \A k \in (i + 1)..(j - 1) : body[k].t # "nl"}
        Hits == {i \in DOMAIN body : body[i].t = marker /\ GroupAfter(i) # {}}
    IN  IF Hits = {}
        THEN [found |-> FALSE, group |-> NullStr]
        ELSE LET i == CHOOSE x \in Hits : \A z \in Hits : x <= z
                 j == CHOOSE x \in GroupAfter(i) : \A z \in GroupAfter(i) : x <= z
             IN  [found |-> TRUE, group |-> body[j].s]

---------------------------------------------------------------------------
(* transformToCalendarEvents *)

Undefined == "undefined"

\* variant of FieldValueStep: a slot that holds a date is not overwritten
FieldValueStepFirstWins(acc, fieldValue) ==
    LET fieldName == toLowerCase(fieldValue.field.name)
    IN  IF includes(fieldName, <<"s","t","a","r","t">>) /\ TruthyStr(fieldValue.date)
        THEN IF Truthy(acc.startDate) THEN acc
             ELSE [acc EXCEPT !.startDate = NewDate(fieldValue.date)]
        ELSE IF (includes(fieldName, <<"e","n","d">>) \/ includes(fieldName, <<"d","u","e">>))
                /\ TruthyStr(fieldValue.date)
        THEN IF Truthy(acc.endDate) THEN acc
             ELSE [acc EXCEPT !.endDate = NewDate(fieldValue.date)]
        ELSE IF (includes(fieldName, <<"s","t","a","t","u","s">>)
                 \/ includes(fieldName, <<"s","t","a","t","e">>)
                 \/ includes(fieldName, <<"p","r","o","g","r","e","s","s">>))
                /\ fieldValue.name # ""
        THEN [acc EXCEPT !.projectStatus = fieldValue.name]
        ELSE acc

\* variant of FieldValueStep: only names with "end" feed the end slot
FieldValueStepNoDue(acc, fieldValue) ==
    LET fieldName == toLowerCase(fieldValue.field.name)
    IN  IF includes(fieldName, <<"s","t","a","r","t">>) /\ TruthyStr(fieldValue.date)
        THEN [acc EXCEPT !.startDate = NewDate(fieldValue.date)]
        ELSE IF includes(fieldName, <<"e","n","d">>) /\ TruthyStr(fieldValue.date)
        THEN [acc EXCEPT !.endDate = NewDate(fieldValue.date)]
        ELSE IF (includes(fieldName, <<"s","t","a","t","u","s">>)
                 \/ includes(fieldName, <<"s","t","a","t","e">>)
                 \/ includes(fieldName, <<"p","r","o","g","r","e","s","s">>))
                /\ fieldValue.name # ""
        THEN [acc EXCEPT !.projectStatus = fieldValue.name]
        ELSE acc

\* variant of FieldValueStep: a status once found is not overwritten
FieldValueStepFirstStatus(acc, fieldValue) ==
    LET fieldName == toLowerCase(fieldValue.field.name)
    IN  IF includes(fieldName, <<"s","t","a","r","t">>) /\ TruthyStr(fieldValue.date)
        THEN [acc EXCEPT !.startDate = NewDate(fieldValue.date)]
        ELSE IF (includes(fieldName, <<"e","n","d">>) \/ includes(fieldName, <<"d","u","e">>))
                /\ TruthyStr(fieldValue.date)
        THEN [acc EXCEPT !.endDate = NewDate(fieldValue.date)]
        ELSE IF (includes(fieldName, <<"s","t","a","t","u","s">>)
                 \/ includes(fieldName, <<"s","t","a","t","e">>)
                 \/ includes(fieldName, <<"p","r","o","g","r","e","s","s">>))
                /\ fieldValue.name # ""
        THEN IF acc.projectStatus # Undefined THEN acc
             ELSE [acc EXCEPT !.projectStatus = fieldValue.name]
        ELSE acc

\* the body of the forEach over item.fieldValues.nodes
FieldValueStep(acc, fieldValue) ==
    LET fieldName == toLowerCase(fieldValue.field.name)
    IN  IF includes(fieldName, <<"s","t","a","r","t">>) /\ TruthyStr(fieldValue.date)
        THEN [acc EXCEPT !.startDate = NewDate(fieldValue.date)]
        ELSE IF (includes(fieldName, <<"e","n","d">>) \/ includes(fieldName, <<"d","u","e">>))
                /\ TruthyStr(fieldValue.date)
        THEN [acc EXCEPT !.endDate = NewDate(fieldValue.date)]
        ELSE IF (includes(fieldName, <<"s","t","a","t","u","s">>)
                 \/ includes(fieldName, <<"s","t","a","t","e">>)
                 \/ includes(fieldName, <<"p","r","o","g","r","e","s","s">>))
                /\ fieldValue.name # ""
        THEN [acc EXCEPT !.projectStatus = fieldValue.name]
        ELSE acc

RECURSIVE ForEachFieldValue(_, _, _)
ForEachFieldValue(nodes, i, acc) ==
    IF i > Len(nodes) THEN acc
    ELSE ForEachFieldValue(nodes, i + 1, FieldValueStep(acc, nodes[i]))

\* variant of BodyDates: a marker replaces the date a field value supplied
BodyDatesOverriding(acc, issue) ==
    LET startDateMatch == Match(issue.body, "start")
        endDateMatch   == Match(issue.body, "end")
        s == IF startDateMatch.found
             THEN NewDate(startDateMatch.group) ELSE acc.startDate
        e == IF endDateMatch.found
             THEN NewDate(endDateMatch.group) ELSE acc.endDate
    IN  [acc EXCEPT !.startDate = s, !.endDate = e]

\* variant of BodyDates: the body is read only when both slots are null
BodyDatesBothOpen(acc, issue) ==
    IF ~Truthy(acc.startDate) /\ ~Truthy(acc.endDate)
    THEN LET startDateMatch == Match(issue.body, "start")
             endDateMatch   == Match(issue.body, "end")
             s == IF startDateMatch.found /\ ~Truthy(acc.startDate)
                  THEN NewDate(startDateMatch.group) ELSE acc.startDate
             e == IF endDateMatch.found /\ ~Truthy(acc.endDate)
                  THEN NewDate(endDateMatch.group) ELSE acc.endDate
         IN  [acc EXCEPT !.startDate = s, !.endDate = e]
    ELSE acc

\* dates from the issue body, for the slots the field values left null
BodyDates(acc, issue) ==
    IF ~Truthy(acc.startDate) \/ ~Truthy(acc.endDate)
    THEN LET startDateMatch == Match(issue.body, "start")
             endDateMatch   == Match(issue.body, "end")
             s == IF startDateMatch.found /\ ~Truthy(acc.startDate)
                  THEN NewDate(startDateMatch.group) ELSE acc.startDate
             e == IF endDateMatch.found /\ ~Truthy(acc.endDate)
                  THEN NewDate(endDateMatch.group) ELSE acc.endDate
         IN  [acc EXCEPT !.startDate = s, !.endDate = e]
    ELSE acc

\* variant of CreatedFallback: the milestone's due date, when there is one
CreatedFallbackMilestone(acc, issue) ==
    IF ~Truthy(acc.startDate)
    THEN IF issue.milestone.present /\ TruthyStr(issue.milestone.due_on)
         THEN [acc EXCEPT !.startDate = NewDate(issue.milestone.due_on)]
         ELSE [acc EXCEPT !.startDate = NewDate(issue.created_at)]
    ELSE acc

\* if no start date from fields or body, use created date
CreatedFallback(acc, issue) ==
    IF ~Truthy(acc.startDate)
    THEN [acc EXCEPT !.startDate = NewDate(issue.created_at)]
    ELSE acc

\* variant of MilestoneFallback: the milestone replaces a resolved end date
MilestoneFallbackAlways(acc, issue) ==
    IF issue.milestone.present /\ TruthyStr(issue.milestone.due_on)
    THEN [acc EXCEPT !.endDate = NewDate(issue.milestone.due_on)]
    ELSE acc

\* if the issue has a milestone with due date, use that as end date
MilestoneFallback(acc, issue) ==
    IF ~Truthy(acc.endDate) /\ issue.milestone.present /\ TruthyStr(issue.milestone.due_on)
    THEN [acc EXCEPT !.endDate = NewDate(issue.milestone.due_on)]
    ELSE acc

\* `${issue.number}`: the decimal text of a non-negative integer
RECURSIVE NumberText(_)
NumberText(n) ==
    LET digit == <<"0","1","2","3","4","5","6","7","8","9">>[(n % 10) + 1]
    IN  IF n < 10 THEN <<digit>> ELSE Append(NumberText(n \div 10), digit)

\* the callback of items.map
TransformItem(item) ==
    LET issue == item.content
        acc0  == [startDate |-> NullDate, endDate |-> NullDate, projectStatus |-> Undefined]
        acc1  == ForEachFieldValue(item.fieldValues, 1, acc0)
        acc2  == BodyDates(acc1, issue)
        acc3  == CreatedFallback(acc2, issue)
        acc4  == MilestoneFallback(acc3, issue)
    IN  [id            |-> NumberText(issue.number),
         startDate     |-> acc4.startDate,
         endDate       |-> acc4.endDate,
         assignees     |-> issue.assignees,
         status        |-> issue.state,
         projectStatus |-> acc4.projectStatus]

\* a filter that keeps the events whose start date holds a time value
HasTimeValue(event) == event.startDate.valid

\* the predicate of the final filter: only include events with start dates
HasStartDate(event) == Truthy(event.startDate)

transformToCalendarEvents(its) ==
    SelectSeq([i \in DOMAIN its |-> TransformItem(its[i])], HasStartDate)

---------------------------------------------------------------------------
(* analyzeTeamWorkload *)

\* the digits of a canonical array index: no sign, no leading zero
Digits == <<"0","1","2","3","4","5","6","7","8","9">>

DigitValue(c) == (CHOOSE i \in DOMAIN Digits : Digits[i] = c) - 1

\* a < b for digit strings without leading zeros: shorter is smaller, equal
\* lengths compare digit by digit
IndexLess(a, b) ==
    \/ Len(a) < Len(b)
    \/ /\ Len(a) = Len(b)
       /\ \E i \in DOMAIN a :
            /\ \A j \in 1..(i - 1) : a[j] = b[j]
            /\ DigitValue(a[i]) < DigitValue(b[i])

\* 2^32 - 1, the first integer that is not an array index
IndexLimit == <<"4","2","9","4","9","6","7","2","9","5">>

\* whether a property key is an integer index, which Object.values lists
\* first and in ascending numeric order
IsArrayIndex(key) ==
    /\ Len(key) >= 1
    /\ \A i \in DOMAIN key : \E j \in DOMAIN Digits : Digits[j] = key[i]
    /\ (Len(key) > 1 => key[1] # "0")
    /\ IndexLess(key, IndexLimit)

\* the property names every object literal inherits from Object.prototype
\* that are well-formed GitHub logins (letters, digits, single hyphens)
ObjectPrototypeKeys ==
    { <<"c","o","n","s","t","r","u","c","t","o","r">>,
      <<"t","o","S","t","r","i","n","g">>,
      <<"v","a","l","u","e","O","f">> }

\* own properties of teamWorkload, in insertion order
OwnKeys(teamWorkload) == {teamWorkload[i].login : i \in DOMAIN teamWorkload}

\* !teamWorkload[login]: the read finds an own property or an inherited one
IsMissing(teamWorkload, login) ==
    login \notin OwnKeys(teamWorkload) /\ login \notin ObjectPrototypeKeys

NewMember(login) ==
    [login |-> login, activeIssues |-> 0, upcomingIssues |-> 0,
     overdueIssues |-> 0, totalWorkload |-> 0]

\* event.endDate && event.endDate < now
IsOverdue(event, t) == Truthy(event.endDate) /\ DateLess(event.endDate, t)

\* event.startDate > now
IsUpcoming(event, t) == DateLess(t, event.startDate)

\* the counters of one member after one (event, assignee) pair
CountEvent(member, event, t) ==
    [member EXCEPT
        !.activeIssues = @ + 1,
        !.totalWorkload = @ + 1,
        !.overdueIssues = IF IsOverdue(event, t) THEN @ + 1 ELSE @,
        !.upcomingIssues = IF IsUpcoming(event, t) THEN @ + 1 ELSE @]

\* the body of event.assignees.forEach.  When the read of teamWorkload[login]
\* yields an inherited property, the increments land on that inherited
\* object and teamWorkload keeps its own properties unchanged.
AssigneeStep(teamWorkload, event, login, t) ==
    LET created == IF IsMissing(teamWorkload, login)
                   THEN Append(teamWorkload, NewMember(login))
                   ELSE teamWorkload
    IN  [i \in DOMAIN created |->
            IF created[i].login = login
            THEN CountEvent(created[i], event, t)
            ELSE created[i]]

RECURSIVE ForEachAssignee(_, _, _, _)
ForEachAssignee(teamWorkload, event, i, t) ==
    IF i > Len(event.assignees) THEN teamWorkload
    ELSE ForEachAssignee(AssigneeStep(teamWorkload, event, event.assignees[i], t),
                         event, i + 1, t)

\* variant of EventStep: closed events are counted too
EventStepCountingClosed(teamWorkload, event, t) ==
    ForEachAssignee(teamWorkload, event, 1, t)

\* the body of events.forEach: skip completed tasks
EventStep(teamWorkload, event, t) ==
    IF event.status = "closed" THEN teamWorkload
    ELSE ForEachAssignee(teamWorkload, event, 1, t)

RECURSIVE ForEachEvent(_, _, _, _)
ForEachEvent(teamWorkload, evs, i, t) ==
    IF i > Len(evs) THEN teamWorkload
    ELSE ForEachEvent(EventStep(teamWorkload, evs[i], t), evs, i + 1, t)

\* insert x into the sorted list s after every element that does not
\* compare greater: one step of a stable sort
RECURSIVE InsertSorted(_, _)
InsertSorted(s, x) ==
    IF s = <<>> THEN <<x>>
    ELSE IF s[Len(s)].totalWorkload - x.totalWorkload > 0
         THEN Append(InsertSorted(SubSeq(s, 1, Len(s) - 1), x), s[Len(s)])
         ELSE Append(s, x)

\* variant of SortByTotalWorkload: the values as Object.values lists them
Unsorted(s) == s

\* Array.prototype.sort((a, b) => a.totalWorkload - b.totalWorkload), stable
RECURSIVE SortByTotalWorkload(_)
SortByTotalWorkload(s) ==
    IF s = <<>> THEN <<>>
    ELSE InsertSorted(SortByTotalWorkload(SubSeq(s, 1, Len(s) - 1)), s[Len(s)])

\* insert x into s, ascending by the numeric value of the key
RECURSIVE InsertByIndex(_, _)
InsertByIndex(s, x) ==
    IF s = <<>> THEN <<x>>
    ELSE IF IndexLess(x.login, s[Len(s)].login)
         THEN Append(InsertByIndex(SubSeq(s, 1, Len(s) - 1), x), s[Len(s)])
         ELSE Append(s, x)

RECURSIVE SortByIndex(_)
SortByIndex(s) ==
    IF s = <<>> THEN <<>>
    ELSE InsertByIndex(SortByIndex(SubSeq(s, 1, Len(s) - 1)), s[Len(s)])

IsIndexMember(member) == IsArrayIndex(member.login)

IsNamedMember(member) == ~IsArrayIndex(member.login)

\* Object.values: integer keys ascending, then the others as inserted
ObjectValues(teamWorkload) ==
    SortByIndex(SelectSeq(teamWorkload, IsIndexMember))
        \o SelectSeq(teamWorkload, IsNamedMember)

analyzeTeamWorkload(evs, t) ==
    SortByTotalWorkload(ObjectValues(ForEachEvent(<<>>, evs, 1, t)))

---------------------------------------------------------------------------
(* createCalendarUI: events grouped by day key, in the zone of the process *)

\* the civil date of a day number (days since 1970-01-01)
CivilFromDays(days) ==
    LET z   == days + 719468
        era == z \div 146097
        doe == z - era * 146097
        yoe == (doe - doe \div 1460 + doe \div 36524 - doe \div 146096) \div 365
        doy == doe - (365 * yoe + yoe \div 4 - yoe \div 100)
        mp  == (5 * doy + 2) \div 153
        d   == doy - (153 * mp + 2) \div 5 + 1
        m   == IF mp < 10 THEN mp + 3 ELSE mp - 9
        y   == yoe + era * 400
    IN  [y |-> IF m <= 2 THEN y + 1 ELSE y, m |-> m, d |-> d]

DateAt(time) == [tag |-> "date", valid |-> TRUE, time |-> time]

\* the local day number of an instant; zn is the offset from UTC in hours
LocalDay(date, zn) == (date.time + zn) \div 24

\* local midnight of a day number
StartOfDay(day, zn) == DateAt(day * 24 - zn)

startOfMonth(date, zn) ==
    LET c == CivilFromDays(LocalDay(date, zn))
    IN  StartOfDay(DaysFromCivil(c.y, c.m, 1), zn)

\* the last instant of the month; instants are whole hours, so it stands
\* at the last hour of the last day
endOfMonth(date, zn) ==
    LET c    == CivilFromDays(LocalDay(date, zn))
        next == IF c.m = 12 THEN DaysFromCivil(c.y + 1, 1, 1)
                            ELSE DaysFromCivil(c.y, c.m + 1, 1)
    IN  DateAt(next * 24 - zn - 1)

\* a month test that only asks for two dates
isAnyMonth(a, b, zn) == a.valid /\ b.valid

isSameMonth(a, b, zn) ==
    /\ a.valid
    /\ b.valid
    /\ LET ca == CivilFromDays(LocalDay(a, zn))
           cb == CivilFromDays(LocalDay(b, zn))
       IN  ca.y = cb.y /\ ca.m = cb.m

\* format(date, 'yyyy-MM-dd'): the local civil date
format(date, zn) ==
    LET c == CivilFromDays(LocalDay(date, zn))
    IN  <<c.y, c.m, c.d>>

\* a <= b and a >= b on Date objects: false when either is Invalid Date
DateLeq(a, b) == a.valid /\ b.valid /\ a.time <= b.time

\* a.getTime() !== b.getTime(): NaN differs from everything
TimeDiffers(a, b) == ~(a.valid /\ b.valid /\ a.time = b.time)

Reverse(s) == [k \in DOMAIN s |-> s[Len(s) + 1 - k]]

\* the local midnights of the days from that of start to that of end
DaysBetween(start, end, zn) ==
    [k \in 1..(LocalDay(end, zn) - LocalDay(start, zn) + 1) |->
        StartOfDay(LocalDay(start, zn) + k - 1, zn)]

\* eachDayOfInterval({start, end}).  An interval whose start is after its
\* end is a RangeError in date-fns 2 and a descending list in date-fns 3, 4
eachDayOfInterval(start, end, zn, throwing) ==
    IF start.time <= end.time
    THEN [threw |-> FALSE, dates |-> DaysBetween(start, end, zn)]
    ELSE IF throwing
         THEN [threw |-> TRUE, dates |-> <<>>]
         ELSE [threw |-> FALSE, dates |-> Reverse(DaysBetween(end, start, zn))]

\* an event shown from its own start, whatever the month
ClipStartNever(startDate, monthStart) == startDate

\* event.startDate > monthStart ? event.startDate : monthStart
ClipStart(startDate, monthStart) ==
    IF DateLess(monthStart, startDate) THEN startDate ELSE monthStart

\* an event shown up to its own end, whatever the month
ClipEndNever(endDate, monthEnd) == endDate

\* event.endDate < monthEnd ? event.endDate : monthEnd
ClipEnd(endDate, monthEnd) ==
    IF DateLess(endDate, monthEnd) THEN endDate ELSE monthEnd

\* the dates one event is shown on
EventDates(event, currentDate, zn, throwing) ==
    LET monthStart == startOfMonth(currentDate, zn)
        monthEnd   == endOfMonth(currentDate, zn)
        eventStart == ClipStart(event.startDate, monthStart)
        eventEnd   == ClipEnd(event.endDate, monthEnd)
    IN  IF Truthy(event.endDate) /\ TimeDiffers(event.startDate, event.endDate)
        THEN IF DateLeq(eventStart, monthEnd) /\ DateLeq(monthStart, eventEnd)
             THEN eachDayOfInterval(eventStart, eventEnd, zn, throwing)
             ELSE [threw |-> FALSE, dates |-> <<>>]
        ELSE IF isSameMonth(event.startDate, currentDate, zn)
             THEN [threw |-> FALSE, dates |-> <<event.startDate>>]
             ELSE [threw |-> FALSE, dates |-> <<>>]

\* eventsByDate[dateKey].push(event), the entry created when missing;
\* eventsByDate is kept as its entries in insertion order, an event as its
\* index in the list of events
PushEvent(acc, dateKey, i) ==
    IF \E k \in DOMAIN acc : acc[k].dateKey = dateKey
    THEN [k \in DOMAIN acc |->
            IF acc[k].dateKey = dateKey
            THEN [acc[k] EXCEPT !.events = Append(@, i)]
            ELSE acc[k]]
    ELSE Append(acc, [dateKey |-> dateKey, events |-> <<i>>])

RECURSIVE ForEachDate(_, _, _, _, _)
ForEachDate(acc, dates, k, i, zn) ==
    IF k > Len(dates) THEN acc
    ELSE ForEachDate(PushEvent(acc, format(dates[k], zn), i),
                     dates, k + 1, i, zn)

\* events.forEach of createCalendarUI; a throw ends it
RECURSIVE GroupEvents(_, _, _, _, _, _)
GroupEvents(acc, evs, i, currentDate, zn, throwing) ==
    IF i > Len(evs) THEN [threw |-> FALSE, eventsByDate |-> acc]
    ELSE LET eventDates == EventDates(evs[i], currentDate, zn, throwing)
         IN  IF eventDates.threw
             THEN [threw |-> TRUE, eventsByDate |-> acc]
             ELSE GroupEvents(ForEachDate(acc, eventDates.dates, 1, i, zn),
                              evs, i + 1, currentDate, zn, throwing)

createCalendarUI(evs, currentDate, zn, throwing) ==
    GroupEvents(<<>>, evs, 1, currentDate, zn, throwing)

---------------------------------------------------------------------------
(* getTeamStatus of src/tools/team-status.ts *)

\* parseISO of a timestamp of the REST API, which names its zone
parseISO(s) == NewDate(s)

isToday(date, t, zn) ==
    date.valid /\ LocalDay(date, zn) = LocalDay(t, zn)

\* the Sunday on or before a day; 1970-01-01 was a Thursday
StartOfWeek(day) == day - ((day + 4) % 7)

isThisWeek(date, t, zn) ==
    date.valid /\ StartOfWeek(LocalDay(date, zn)) = StartOfWeek(LocalDay(t, zn))

\* response.data.filter(issue => !issue.pull_request)
NotPullRequest(issue) == ~issue.pull_request

\* getUniqueAssignees: the logins in the order a Set takes them in
RECURSIVE AddLogins(_, _, _)
AddLogins(logins, assignees, j) ==
    IF j > Len(assignees) THEN logins
    ELSE AddLogins(IF \E k \in DOMAIN logins : logins[k] = assignees[j]
                   THEN logins ELSE Append(logins, assignees[j]),
                   assignees, j + 1)

RECURSIVE getUniqueAssignees(_, _, _)
getUniqueAssignees(logins, issues, i) ==
    IF i > Len(issues) THEN logins
    ELSE getUniqueAssignees(AddLogins(logins, issues[i].assignees, 1), issues, i + 1)

countDueToday(issues, t, zn) ==
    Cardinality({i \in DOMAIN issues :
        /\ issues[i].milestone.present
        /\ TruthyStr(issues[i].milestone.due_on)
        /\ isToday(parseISO(issues[i].milestone.due_on), t, zn)})

\* a lookup whose error leaves getCompletedThisWeek
getCompletedThisWeekThrowing(response, t, zn) ==
    IF response.kind = "rejected"
    THEN [threw |-> TRUE, count |-> 0]
    ELSE [threw |-> FALSE, count |-> 0]

\* getCompletedThisWeek: the closed issues of the week, 0 when the request
\* is rejected
getCompletedThisWeek(response, t, zn) ==
    IF response.kind = "rejected"
    THEN [threw |-> FALSE, count |-> 0]
    ELSE LET closedIssues == SelectSeq(response.issues, NotPullRequest)
         IN  [threw |-> FALSE,
              count |-> Cardinality({i \in DOMAIN closedIssues :
                            /\ TruthyStr(closedIssues[i].closed_at)
                            /\ isThisWeek(parseISO(closedIssues[i].closed_at), t, zn)})]

\* one member of the team; lookups gives the answer to its request
TeamMember(login, issues, lookups, t, zn) ==
    LET Assigned(issue) ==
            \E j \in DOMAIN issue.assignees : issue.assignees[j] = login
        Open(issue) == issue.state = "open"
        memberIssues == SelectSeq(issues, Assigned)
    IN  [login |-> login,
         activeIssues |-> Len(SelectSeq(memberIssues, Open)),
         dueToday |-> countDueToday(memberIssues, t, zn),
         completedThisWeek |-> getCompletedThisWeek(lookups[login], t, zn).count,
         issues |-> memberIssues]

\* members.sort((a, b) => b.activeIssues - a.activeIssues), a stable sort
RECURSIVE InsertByActiveIssues(_, _)
InsertByActiveIssues(s, x) ==
    IF s = <<>> THEN <<x>>
    ELSE IF s[Len(s)].activeIssues >= x.activeIssues THEN Append(s, x)
    ELSE Append(InsertByActiveIssues(SubSeq(s, 1, Len(s) - 1), x), s[Len(s)])

RECURSIVE SortByActiveIssues(_)
SortByActiveIssues(s) ==
    IF s = <<>> THEN <<>>
    ELSE InsertByActiveIssues(SortByActiveIssues(SubSeq(s, 1, Len(s) - 1)), s[Len(s)])

RECURSIVE Sum(_, _)
Sum(s, i) == IF i > Len(s) THEN 0 ELSE s[i] + Sum(s, i + 1)

\* getTeamStatus on the issues of getAllTeamIssues
getTeamStatus(data, lookups, t, zn) ==
    LET issues == SelectSeq(data, NotPullRequest)
        assigneeLogins == getUniqueAssignees(<<>>, issues, 1)
        built == [k \in DOMAIN assigneeLogins |->
                    TeamMember(assigneeLogins[k], issues, lookups, t, zn)]
        members == SortByActiveIssues(built)
    IN  [threw |-> \E k \in DOMAIN assigneeLogins :
                        getCompletedThisWeek(lookups[assigneeLogins[k]], t, zn).threw,
         members |-> members,
         totalActiveIssues |-> Sum([k \in DOMAIN members |-> members[k].activeIssues], 1),
         totalDueToday |-> Sum([k \in DOMAIN members |-> members[k].dueToday], 1)]

---------------------------------------------------------------------------
(* Inputs: what the upstream supplier can return *)

\* names of project fields
FieldStart    == <<"S","t","a","r","t">>
FieldEnd      == <<"E","n","d">>
FieldDue      == <<"D","u","e">>
FieldStatus   == <<"S","t","a","t","u","s">>
FieldStartEnd == <<"S","t","a","r","t","/","E","n","d">>

FieldNames == {FieldStart, FieldEnd, FieldDue, FieldStatus, FieldStartEnd}

\* dates of ProjectV2ItemFieldDateValue: always well-formed ISO dates
FieldDates == {IsoStr(2025, 9, 1, 0), IsoStr(2025, 9, 10, 0)}

\* a normalized field value node: a date value or a single-select value
FieldValues ==
    {[field |-> [name |-> n], date |-> d, name |-> ""] : n \in FieldNames, d \in FieldDates}
    \cup {[field |-> [name |-> n], date |-> NullStr, name |-> "Todo"] :
            n \in {FieldStatus, FieldStart}}
    \cup {[field |-> [name |-> FieldStatus], date |-> NullStr, name |-> "Done"]}

FieldValueLists == UNION {[1..n -> FieldValues] : n \in 0..MaxFieldValues}

BodyStart == IsoStr(2025, 9, 2, 0)
BodyEnd   == IsoStr(2025, 9, 12, 0)

Bodies ==
    { <<>>,
      <<Text>>,
      <<StartMarker, Text, Paren(BodyStart), Newline, EndMarker, Text, Paren(BodyEnd)>>,
      <<StartMarker, Text, Paren(BodyStart)>>,
      <<EndMarker, Text, Paren(BodyEnd)>>,
      <<StartMarker, Text, Paren(TextStr)>>,
      <<StartMarker, Text, Newline, EndMarker, Text, Paren(BodyEnd)>>,
      <<StartMarker, Text, EndMarker, Text, Paren(BodyEnd)>>,
      <<EndMarker, Paren(TextStr), Text, StartMarker, Paren(BodyStart)>> }

CreatedEarly == IsoStr(2025, 8, 15, 10)
CreatedLate  == IsoStr(2025, 9, 20, 10)

\* createdAt as passed through by the normalizer; a malformed one is kept
CreatedAts == {CreatedEarly, TextStr}

NoMilestone == [present |-> FALSE, due_on |-> NullStr]

Milestone(due) == [present |-> TRUE, due_on |-> due]

DuePast == IsoStr(2025, 9, 1, 0)
DueLate == IsoStr(2025, 9, 30, 0)

Milestones == {NoMilestone, Milestone(NullStr), Milestone(DueLate)}

alice == <<"a","l","i","c","e">>
bob   == <<"b","o","b">>
seven == <<"7">>
constructor == <<"c","o","n","s","t","r","u","c","t","o","r">>

\* an item of a Projects v2 board, with its field values
ProjectItem(b, c, m, f) ==
    [content |-> [number |-> 1, body |-> b, state |-> "open", created_at |-> c,
                  assignees |-> <<alice>>, milestone |-> m],
     fieldValues |-> f]

AssigneeLists == {<<alice>>, <<bob>>, <<alice, bob>>, <<seven, constructor>>}

\* state, created_at and milestone of the issues of a team board
IssueKinds ==
    { <<"open", CreatedEarly, NoMilestone>>,
      <<"open", CreatedLate, NoMilestone>>,
      <<"open", CreatedEarly, Milestone(DuePast)>>,
      <<"closed", CreatedLate, Milestone(DuePast)>> }

TeamItems ==
    {[content |-> [number |-> 1, body |-> <<>>, state |-> k[1], created_at |-> k[2],
                   assignees |-> a, milestone |-> k[3]],
      fieldValues |-> <<>>] :
        k \in IssueKinds, a \in AssigneeLists}

TeamItemLists == UNION {[1..n -> TeamItems] : n \in 0..MaxEvents}

\* instants at which a call can run, the second one exactly a due date
Instants == {NewDate(IsoStr(2025, 9, 5, 12)), NewDate(DuePast)}

\* zones a process can run in: Pacific, UTC, central Europe in summer
UTC == 0

Zones == {0 - 8, UTC, 2}

\* a date value of a project field
DateField(n, d) == [field |-> [name |-> n], date |-> d, name |-> ""]

DueSameDay == IsoStr(2025, 9, 20, 18)

\* assignee, created_at, milestone and field values of the issues of a
\* board shown as a calendar
CalendarKinds ==
    { <<alice, CreatedEarly, NoMilestone,
            <<DateField(FieldStart, IsoStr(2025, 9, 15, 0))>> >>,
      <<alice, CreatedEarly, NoMilestone,
            <<DateField(FieldStart, IsoStr(2025, 9, 15, 0)),
              DateField(FieldEnd, IsoStr(2025, 9, 15, 0))>> >>,
      <<bob, CreatedEarly, NoMilestone,
            <<DateField(FieldStart, IsoStr(2025, 8, 30, 0)),
              DateField(FieldEnd, IsoStr(2025, 9, 5, 0))>> >>,
      <<bob, CreatedEarly, NoMilestone,
            <<DateField(FieldEnd, IsoStr(2025, 8, 20, 0))>> >>,
      <<alice, CreatedLate, Milestone(DuePast), <<>> >>,
      <<bob, CreatedLate, Milestone(DueSameDay), <<>> >>,
      <<alice, CreatedLate, NoMilestone,
            <<DateField(FieldEnd, IsoStr(2025, 10, 2, 0))>> >>,
      <<bob, TextStr, NoMilestone, <<>> >>,
      <<alice, CreatedEarly, NoMilestone,
            <<DateField(FieldStart, IsoStr(2025, 9, 1, 0))>> >>,
      <<alice, CreatedEarly, NoMilestone,
            <<DateField(FieldStart, IsoStr(2025, 10, 2, 0))>> >> }

CalendarItems ==
    {[content |-> [number |-> 1, body |-> <<>>, state |-> "open", created_at |-> k[2],
                   assignees |-> <<k[1]>>, milestone |-> k[3]],
      fieldValues |-> k[4]] : k \in CalendarKinds}

CalendarItemLists == UNION {[1..n -> CalendarItems] : n \in 0..MaxCalendarEvents}

\* the assignee argument of get_calendar_events
NoAssignee == <<>>

AssigneeArgs == {NoAssignee, alice}

\* what one octokit.graphql request can come to: a rejected request
\* (network, authentication), a response without the project, or a page of
\* nodes; the items are the nodes that pass the label and date filter
PrimaryItems ==
    {[content |-> [number |-> 1, body |-> <<>>, state |-> "open",
                   created_at |-> CreatedEarly, assignees |-> <<a>>,
                   milestone |-> NoMilestone],
      fieldValues |-> <<DateField(FieldStart, IsoStr(2025, 9, 15, 0))>>] :
        a \in {alice, bob}}

\* pageInfo.endCursor: null for a page without nodes, else an opaque text
EndCursors == {"null", "Y3Vyc29yOnYyOpEB", "Y3Vyc29yOnYyOpEC"}

GraphQLResponses ==
    {[kind |-> k, items |-> <<>>, hasNextPage |-> FALSE, endCursor |-> "null"] :
        k \in {"rejected", "no project"}}
    \cup {[kind |-> "page", items |-> i, hasNextPage |-> h, endCursor |-> c] :
            i \in {<<>>} \cup {<<x>> : x \in PrimaryItems}, h \in BOOLEAN,
            c \in EndCursors}

\* what one search request can come to: a rejected request or a page of
\* issues.  full says that the page holds perPage issues, of which the model
\* keeps the first
SecondaryItems ==
    {[content |-> [number |-> 1, body |-> <<>>, state |-> "open",
                   created_at |-> CreatedLate, assignees |-> <<a>>,
                   milestone |-> NoMilestone],
      fieldValues |-> <<>>] : a \in {alice, bob}}

SearchResponses ==
    {[kind |-> "rejected", items |-> <<>>, full |-> FALSE],
     [kind |-> "page", items |-> <<>>, full |-> FALSE]}
    \cup {[kind |-> "page", items |-> <<x>>, full |-> f] :
            x \in SecondaryItems, f \in BOOLEAN}

\* entries of the log
PrimaryCalled   == "fetchProjectItemsGraphQL"
SecondaryCalled == "fetchIssuesByLabel"
GraphQLOk       == "graphql: page"
GraphQLRejected == "graphql: rejected"
GraphQLNoProject == "graphql: project not found"
SearchOk        == "search: page"
SearchFailed    == "search: error"

GraphQLFailures == {GraphQLRejected, GraphQLNoProject}

Count(s, x) == Cardinality({k \in DOMAIN s : s[k] = x})

\* issues of issues.listForRepo: open ones for the team, closed ones for
\* the lookup of one assignee; pull requests come with both
DueToday   == IsoStr(2025, 9, 5, 7)
ClosedThisWeek == IsoStr(2025, 9, 3, 9)
ClosedBefore   == IsoStr(2025, 8, 20, 9)

RestIssue(st, a, m, c, pr) ==
    [number |-> 1, state |-> st, assignees |-> a, milestone |-> m,
     closed_at |-> c, pull_request |-> pr]

OpenIssues ==
    {RestIssue("open", a, m, NullStr, FALSE) :
        a \in {<<alice>>, <<bob>>, <<bob, alice>>, <<>>},
        m \in {NoMilestone, Milestone(DueToday)}}
    \cup {RestIssue("open", <<alice>>, Milestone(DueToday), NullStr, TRUE)}

OpenIssueLists == UNION {[1..n -> OpenIssues] : n \in 0..MaxIssues}

\* answers to the request for the closed issues of one assignee
LookupResponses ==
    {[kind |-> "rejected", issues |-> <<>>],
     [kind |-> "page", issues |-> <<>>],
     [kind |-> "page",
      issues |-> <<RestIssue("closed", <<>>, NoMilestone, ClosedThisWeek, FALSE),
                   RestIssue("closed", <<>>, NoMilestone, ClosedBefore, FALSE)>>]}

ClosedOk     == "closed issues: page"
ClosedFailed == "closed issues: error"

---------------------------------------------------------------------------
(* The tool calls *)

\* the result object of a call: isError, the kind of its text block, and
\* the data the text is rendered from
Result(isError, text, data) == [isError |-> isError, text |-> text, data |-> data]

NoResult == Result(FALSE, "", <<>>)

\* let cursor = null
NullCursor == "null"

\* the specifications of one handler start inside it
NoRequest == [entry |-> "", name |-> "", args |-> "undefined"]

Idle == /\ pc = "request"
        /\ events = <<>>
        /\ workload = <<>>
        /\ now = NullDate
        /\ result = NoResult
        /\ eventsByDate = <<>>
        /\ log = <<>>
        /\ request = NoRequest
        /\ cursor = NullCursor
        /\ pages = <<>>

Init ==
    /\ Idle
    /\ zone = UTC
    /\ \E b \in Bodies, c \in CreatedAts, m \in Milestones, f \in FieldValueLists :
            items = <<ProjectItem(b, c, m, f)>>

\* issues of a board that differ in number, state and creation date, with
\* or without a start field
NumberedItems ==
    {[content |-> [number |-> n, body |-> <<>>, state |-> st, created_at |-> c,
                   assignees |-> <<alice>>, milestone |-> NoMilestone],
      fieldValues |-> f] :
        n \in {7, 42}, st \in {"open", "closed"},
        c \in {CreatedEarly, CreatedLate, TextStr},
        f \in {<<>>, <<DateField(FieldStart, IsoStr(2025, 9, 15, 0))>>}}

NumberedItemLists == UNION {[1..n -> NumberedItems] : n \in 0..MaxNumbered}

InitTransform ==
    /\ Idle
    /\ zone = UTC
    /\ items \in NumberedItemLists

InitTeam ==
    /\ Idle
    /\ zone = UTC
    /\ items \in TeamItemLists

\* getCalendarEvents: the items fetched, transformed into events
GetCalendarEvents ==
    /\ pc = "request"
    /\ events' = transformToCalendarEvents(items)
    /\ pc' = "events"
    /\ UNCHANGED <<items, now, workload, result, zone, eventsByDate, log, request, cursor, pages>>

\* the analyze_workload call: events, then the workload ranking
AnalyzeWorkload ==
    /\ pc = "request"
    /\ \E t \in Instants : now' = t
    /\ events' = transformToCalendarEvents(items)
    /\ workload' = analyzeTeamWorkload(events', now')
    /\ result' = Result(FALSE, "Team Workload Analysis", workload')
    /\ pc' = "workload"
    /\ UNCHANGED <<items, zone, eventsByDate, log, request, cursor, pages>>

\* workloadAnalysis[0] of a mis-written handler: the last entry
LastEntry(workloadAnalysis) == workloadAnalysis[Len(workloadAnalysis)]

\* workloadAnalysis[0]
FirstEntry(workloadAnalysis) == workloadAnalysis[1]

\* the find_best_assignee call
FindBestAssignee ==
    /\ pc = "request"
    /\ \E t \in Instants : now' = t
    /\ events' = transformToCalendarEvents(items)
    /\ workload' = analyzeTeamWorkload(events', now')
    /\ result' = IF Len(workload') = 0
                    THEN Result(FALSE, "No team members found", <<>>)
                    ELSE Result(FALSE, "Best Assignee Recommendation",
                                FirstEntry(workload'))
    /\ pc' = "best"
    /\ UNCHANGED <<items, zone, eventsByDate, log, request, cursor, pages>>

Next == GetCalendarEvents

NextTeam == AnalyzeWorkload

NextBest == FindBestAssignee

\* format(date, 'MMM dd, yyyy') throws on Invalid Date
Formattable(event) ==
    event.startDate.valid /\ (Truthy(event.endDate) => event.endDate.valid)

\* the get_calendar_events call, from the position where its items are in
GetCalendarEventsAt(position) ==
    /\ pc = position
    /\ \E assignee \in AssigneeArgs, t \in Instants, throwing \in BOOLEAN :
        LET all == transformToCalendarEvents(items)
            Assigned(event) ==
                \E j \in DOMAIN event.assignees : event.assignees[j] = assignee
            evs == IF assignee = NoAssignee THEN all ELSE SelectSeq(all, Assigned)
            ui  == createCalendarUI(evs, t, zone, throwing)
        IN  /\ now' = t
            /\ events' = evs
            /\ IF Len(evs) = 0
               THEN /\ result' = Result(FALSE, "No calendar events found", <<>>)
                    /\ eventsByDate' = <<>>
               ELSE IF \E i \in DOMAIN evs : ~Formattable(evs[i])
               THEN /\ result' = Result(TRUE, "Error: Invalid time value", <<>>)
                    /\ eventsByDate' = <<>>
               ELSE IF ui.threw
               THEN /\ result' = Result(TRUE, "Error: Invalid interval", <<>>)
                    /\ eventsByDate' = <<>>
               ELSE /\ result' = Result(FALSE, "Calendar Events", evs)
                    /\ eventsByDate' = ui.eventsByDate
    /\ pc' = "calendar"
    /\ UNCHANGED <<items, workload, zone, log, request, cursor, pages>>

GetCalendarEventsCall == GetCalendarEventsAt("request")

NextCalendar == GetCalendarEventsCall

DEFAULT_LABEL == "area: devrel-opensource"

\* a sub-object of a raw record that is not there (null or undefined)
Absent == [present |-> FALSE, value |-> <<>>]

Present(v) == [present |-> TRUE, value |-> v]

\* raw records of a page, on either path: the author (user in a search
\* result), the label names, the assignee logins and the milestone are
\* there or not
RawRecords ==
    [author : {Absent, Present(alice)},
     labels : {Absent, Present(<<DEFAULT_LABEL>>), Present(<<"bug">>)},
     assignees : {Absent, Present(<<bob>>)},
     milestone : {Absent, Present(DuePast)}]

RawPages == UNION {[1..n -> RawRecords] : n \in 1..MaxRecords}

\* the part of a normalized issue that comes from the optional sub-objects
Normalized(record, labels) ==
    [user |-> [login |-> IF record.author.present THEN record.author.value ELSE <<>>],
     labels |-> labels,
     assignees |-> IF record.assignees.present THEN record.assignees.value ELSE <<>>,
     milestone |-> IF record.milestone.present
                   THEN Milestone(record.milestone.value) ELSE NoMilestone]

\* item.content.labels?.nodes?.some(label => label.name === DEFAULT_LABEL)
hasRequiredLabel(node) ==
    /\ node.labels.present
    /\ \E k \in DOMAIN node.labels.value : node.labels.value[k] = DEFAULT_LABEL

\* filteredItems.map(...) of fetchProjectItemsGraphQL, on issues created
\* since the date asked for
graphqlPage(nodes) ==
    LET filteredItems == SelectSeq(nodes, hasRequiredLabel)
    IN  [k \in DOMAIN filteredItems |->
            Normalized(filteredItems[k],
                       IF filteredItems[k].labels.present
                       THEN filteredItems[k].labels.value ELSE <<>>)]

\* for (const issue of searchResult.items) of fetchIssuesByLabel:
\* issue.labels.map throws on an issue without labels, and the catch of the
\* loop around it leaves with the items pushed so far
RECURSIVE searchPage(_, _, _)
searchPage(issues, k, allItems) ==
    IF k > Len(issues) THEN [threw |-> FALSE, allItems |-> allItems]
    ELSE IF ~issues[k].labels.present THEN [threw |-> TRUE, allItems |-> allItems]
    ELSE searchPage(issues, k + 1,
                    Append(allItems, Normalized(issues[k], issues[k].labels.value)))

\* one page of the primary path is filtered and normalized
NormalizeGraphQLPage ==
    /\ pc = "page"
    /\ events' = graphqlPage(items)
    /\ log' = <<GraphQLOk>>
    /\ pc' = "graphql page"
    /\ UNCHANGED <<items, now, workload, result, zone, eventsByDate, request, cursor,
                   pages>>

\* one page of the secondary path is normalized
NormalizeSearchPage ==
    /\ pc = "page"
    /\ events' = searchPage(items, 1, <<>>).allItems
    /\ log' = IF searchPage(items, 1, <<>>).threw THEN <<SearchFailed>> ELSE <<SearchOk>>
    /\ pc' = "search page"
    /\ UNCHANGED <<items, now, workload, result, zone, eventsByDate, request, cursor,
                   pages>>

NextNormalize == NormalizeGraphQLPage \/ NormalizeSearchPage

InitNormalize ==
    /\ pc = "page"
    /\ items \in RawPages
    /\ events = <<>>
    /\ workload = <<>>
    /\ now = NullDate
    /\ result = NoResult
    /\ eventsByDate = <<>>
    /\ log = <<>>
    /\ request = NoRequest
    /\ cursor = NullCursor
    /\ pages = <<>>
    /\ zone = UTC

\* addDays of date-fns, in a zone without a clock change in the window
addDays(date, amount) ==
    IF date.valid THEN DateAt(date.time + 24 * amount) ELSE date

\* .sort((a, b) => a.startDate - b.startDate), a stable sort
RECURSIVE InsertByStartDate(_, _)
InsertByStartDate(s, x) ==
    IF s = <<>> THEN <<x>>
    ELSE IF s[Len(s)].startDate.time <= x.startDate.time THEN Append(s, x)
    ELSE Append(InsertByStartDate(SubSeq(s, 1, Len(s) - 1), x), s[Len(s)])

RECURSIVE SortByStartDate(_)
SortByStartDate(s) ==
    IF s = <<>> THEN <<>>
    ELSE InsertByStartDate(SortByStartDate(SubSeq(s, 1, Len(s) - 1)), s[Len(s)])

\* events.filter(assigned to login && startDate <= endDate).sort(...)
personEvents(evs, login, endDate) ==
    LET Selected(event) ==
            /\ \E j \in DOMAIN event.assignees : event.assignees[j] = login
            /\ DateLeq(event.startDate, endDate)
    IN  SortByStartDate(SelectSeq(evs, Selected))

DefaultDays == 7

LongDays == 30

\* the arguments of get_person_schedule: days is optional
ScheduleArguments ==
    {[login |-> l] : l \in {alice, bob}}
        \cup {[login |-> l, days |-> LongDays] : l \in {alice, bob}}

\* const { login, days = 7 } = args
DaysOf(args) == IF "days" \in DOMAIN args THEN args.days ELSE DefaultDays

\* the get_person_schedule call of index.js
GetPersonSchedule ==
    /\ pc = "request"
    /\ \E args \in ScheduleArguments, t \in Instants :
        LET all == transformToCalendarEvents(items)
            endDate == addDays(t, DaysOf(args))
            evs == personEvents(all, args.login, endDate)
        IN  /\ now' = t
            /\ request' = [entry |-> "index.js", name |-> "get_person_schedule",
                           args |-> args]
            /\ events' = evs
            /\ IF \E i \in DOMAIN evs : ~Formattable(evs[i])
               THEN result' = Result(TRUE, "Error: Invalid time value", <<>>)
               ELSE IF Len(evs) = 0
               THEN result' = Result(FALSE, "No upcoming work found", evs)
               ELSE result' = Result(FALSE, "Schedule", evs)
    /\ pc' = "schedule"
    /\ UNCHANGED <<items, workload, zone, eventsByDate, log, cursor, pages>>

NextSchedule == GetPersonSchedule

\* fetchProjectItems: the primary path is entered, let cursor = null
FetchProjectItems ==
    /\ pc = "fetch"
    /\ log' = Append(log, PrimaryCalled)
    /\ cursor' = NullCursor
    /\ pc' = "graphql"
    /\ UNCHANGED <<items, events, now, workload, result, zone, eventsByDate, request,
                   pages>>

\* an error of the primary path that ends the fetch where it stands
LeaveOnGraphQLError(lg, failure) ==
    [pc |-> "fetched", log |-> Append(lg, failure)]

\* catch (graphqlError) of fetchProjectItems: fetchIssuesByLabel is entered
CatchGraphQLError(lg, failure) ==
    [pc |-> "search", log |-> lg \o <<failure, SecondaryCalled>>]

\* a fallback that goes on from the list of the primary path
KeepGathered(gathered) == gathered

\* const allItems = [] of fetchIssuesByLabel: the list of the primary path
\* died with its error
NewAllItems(gathered) == <<>>

\* a request of the loop, not answered yet
PendingPage(c) ==
    [cursor |-> c, answered |-> FALSE, kind |-> "", items |-> <<>>,
     hasNextPage |-> FALSE, endCursor |-> NullCursor]

\* its answer
AnsweredPage(page, response) ==
    [cursor |-> page.cursor, answered |-> TRUE, kind |-> response.kind,
     items |-> response.items, hasNextPage |-> response.hasNextPage,
     endCursor |-> response.endCursor]

\* a loop that never moves its cursor
KeepCursor(c, response) == c

\* cursor = project.items.pageInfo.endCursor
NextCursor(c, response) == response.endCursor

\* octokit.graphql(query, {org, projectNumber, cursor}) is called: the
\* loop waits for its answer
GraphQLRequest ==
    /\ pc = "graphql"
    /\ pages' = Append(pages, PendingPage(cursor))
    /\ pc' = "awaiting"
    /\ UNCHANGED <<items, events, now, workload, result, zone, eventsByDate, log,
                   request, cursor>>

\* the rest of one turn of the loop of fetchProjectItemsGraphQL, the answer
\* in.  An error leaves the loop, is caught in fetchProjectItems and enters
\* fetchIssuesByLabel, which starts from an empty list
GraphQLPage ==
    /\ pc = "awaiting"
    /\ \E response \in GraphQLResponses :
        /\ response.hasNextPage => Count(log, GraphQLOk) + 1 < MaxPages
        /\ pages' = [pages EXCEPT ![Len(pages)] = AnsweredPage(@, response)]
        /\ IF response.kind = "page"
           THEN /\ items' = items \o response.items
                /\ log' = Append(log, GraphQLOk)
                /\ cursor' = NextCursor(cursor, response)
                /\ pc' = IF response.hasNextPage THEN "graphql" ELSE "fetched"
           ELSE LET failure == IF response.kind = "rejected"
                               THEN GraphQLRejected ELSE GraphQLNoProject
                IN  /\ items' = NewAllItems(items)
                    /\ log' = CatchGraphQLError(log, failure).log
                    /\ cursor' = cursor
                    /\ pc' = CatchGraphQLError(log, failure).pc
    /\ UNCHANGED <<events, now, workload, result, zone, eventsByDate, request>>

\* one turn of the loop of fetchIssuesByLabel.  A rejected request is
\* caught inside the loop, which is left with the items gathered so far
SearchPage ==
    /\ pc = "search"
    /\ \E response \in SearchResponses :
        /\ response.full => Count(log, SearchOk) + 1 < MaxPages
        /\ IF response.kind = "page"
           THEN /\ items' = items \o response.items
                /\ log' = Append(log, SearchOk)
                /\ pc' = IF response.full THEN "search" ELSE "fetched"
           ELSE /\ items' = items
                /\ log' = Append(log, SearchFailed)
                /\ pc' = "fetched"
    /\ UNCHANGED <<events, now, workload, result, zone, eventsByDate, request, cursor, pages>>

\* the rest of the get_calendar_events call, the items fetched
FetchedCalendarEvents == GetCalendarEventsAt("fetched")

NextFetch ==
    \/ FetchProjectItems
    \/ GraphQLRequest
    \/ GraphQLPage
    \/ SearchPage
    \/ FetchedCalendarEvents

InitFetch ==
    /\ pc = "fetch"
    /\ items = <<>>
    /\ events = <<>>
    /\ workload = <<>>
    /\ now = NullDate
    /\ result = NoResult
    /\ eventsByDate = <<>>
    /\ log = <<>>
    /\ request = NoRequest
    /\ cursor = NullCursor
    /\ pages = <<>>
    /\ zone = UTC

\* the operations of the two entry points
ToolsJs == {"get_team_status", "get_person_schedule", "analyze_workload",
            "find_best_assignee", "get_calendar_events"}

ToolsTs == {"get_team_status", "get_person_schedule", "analyze_workload",
            "find_best_assignee"}

ToolNames == ToolsJs \cup {"bogus", "GET_TEAM_STATUS"}

\* the arguments of a call: none, an empty object, an object with a login
ArgumentObjects == {"undefined", "{}", "{login}"}

\* the handlers that destructure args
DestructuresArgsJs == {"get_person_schedule", "get_calendar_events"}

DestructuresArgsTs == {"get_person_schedule"}

\* an Error: its message and what the message is about
Error(message, about) == [message |-> message, about |-> about]

NoError == Error("", "")

\* what index.js can throw once the events are in: format and
\* eachDayOfInterval throw a RangeError on some dates
FormatErrors(name) ==
    IF name \in {"get_person_schedule", "get_calendar_events"}
    THEN {NoError, Error("Invalid time value", "")}
    ELSE {NoError}

\* the requests getCalendarEvents makes, told in one piece: the primary
\* path alone, or the secondary after it, whose error does not leave it
FetchesJs ==
    { <<PrimaryCalled, GraphQLOk>>,
      <<PrimaryCalled, GraphQLRejected, SecondaryCalled, SearchOk>>,
      <<PrimaryCalled, GraphQLRejected, SecondaryCalled, SearchFailed>> }

\* the request of GitHubClient.getIssues, which throws when it is rejected
IssuesOk     == "issues: page"
IssuesFailed == "issues: error"

\* a handler that lets the error leave it
RethrowJs(error) ==
    [pc |-> "thrown", result |-> Result(TRUE, "${error.message}", error)]

\* catch (error) of the handler of index.js
CatchJs(error) ==
    [pc |-> "returned", result |-> Result(TRUE, "Error: ${error.message}", error)]

\* catch (error) of the handler of src/index.ts: an McpError is thrown
CatchTs(error) ==
    [pc |-> "thrown",
     result |-> Result(TRUE, "Tool execution failed: ${errorMessage}",
                       [code |-> "InternalError",
                        message |-> error.message, about |-> error.about])]

DEFAULT_ORG == "squareup"
DEFAULT_PROJECT_NUMBER == 333

\* const { org = DEFAULT_ORG, project = DEFAULT_PROJECT_NUMBER, since,
\* assignee } = args, and the since of fetchProjectItems; none of the
\* argument objects of the model names one of the four
CalendarArguments(args) ==
    [threw |-> args = "undefined",
     org |-> DEFAULT_ORG,
     project |-> DEFAULT_PROJECT_NUMBER,
     since |-> NewDate(IsoStr(2025, 8, 1, 0)),
     assignee |-> Undefined]

\* the call handler of index.js
CallToolJs ==
    /\ pc = "dispatch"
    /\ request.entry = "index.js"
    /\ \E fetch \in FetchesJs, thrown \in FormatErrors(request.name) :
        LET name == request.name
            error == IF name \notin ToolsJs
                        THEN Error("Unknown tool: ${name}", name)
                     ELSE IF name \in DestructuresArgsJs /\ request.args = "undefined"
                        THEN Error("Cannot destructure property of undefined", "args")
                     ELSE thrown
            fetched == name \in ToolsJs
                        /\ ~(name \in DestructuresArgsJs /\ request.args = "undefined")
        IN  /\ log' = IF fetched THEN fetch ELSE log
            /\ IF error = NoError
               THEN /\ result' = Result(FALSE, name, <<>>)
                    /\ pc' = "returned"
               ELSE /\ result' = CatchJs(error).result
                    /\ pc' = CatchJs(error).pc
    /\ UNCHANGED <<items, events, now, workload, zone, eventsByDate, request, cursor, pages>>

\* the call handler of src/index.ts
CallToolTs ==
    /\ pc = "dispatch"
    /\ request.entry = "src/index.ts"
    /\ \E fetch \in {IssuesOk, IssuesFailed} :
        LET name == request.name
            error == IF name \notin ToolsTs
                        THEN Error("MCP error -32601: Unknown tool: ${name}", name)
                     ELSE IF name \in DestructuresArgsTs /\ request.args = "undefined"
                        THEN Error("Cannot destructure property of undefined", "args")
                     ELSE IF fetch = IssuesFailed
                        THEN Error("Failed to fetch issues: ${error.message}", "")
                     ELSE NoError
            fetched == name \in ToolsTs
                        /\ ~(name \in DestructuresArgsTs /\ request.args = "undefined")
        IN  /\ log' = IF fetched THEN <<fetch>> ELSE log
            /\ IF error = NoError
               THEN /\ result' = Result(FALSE, name, <<>>)
                    /\ pc' = "returned"
               ELSE /\ result' = CatchTs(error).result
                    /\ pc' = CatchTs(error).pc
    /\ UNCHANGED <<items, events, now, workload, zone, eventsByDate, request, cursor, pages>>

NextDispatch == CallToolJs \/ CallToolTs

InitDispatch ==
    /\ pc = "dispatch"
    /\ items = <<>>
    /\ events = <<>>
    /\ workload = <<>>
    /\ now = NullDate
    /\ result = NoResult
    /\ eventsByDate = <<>>
    /\ log = <<>>
    /\ zone = UTC
    /\ cursor = NullCursor
    /\ pages = <<>>
    /\ request \in [entry : {"index.js", "src/index.ts"},
                    name : ToolNames,
                    args : ArgumentObjects]

\* getTeamStatus of src/tools/team-status.ts, as get_team_status of
\* src/index.ts calls it; items holds the answer to the request for the
\* open issues
GetTeamStatusTs ==
    /\ pc = "request"
    /\ \E fetch \in {IssuesOk, IssuesFailed}, t \in Instants,
          lookups \in [{alice, bob} -> LookupResponses] :
        LET status == getTeamStatus(items, lookups, t, zone)
            logins == getUniqueAssignees(<<>>, SelectSeq(items, NotPullRequest), 1)
        IN  /\ now' = t
            /\ IF fetch = IssuesFailed
               THEN /\ log' = <<IssuesFailed>>
                    /\ result' = CatchTs(Error("Failed to fetch issues: ${error.message}", "")).result
                    /\ pc' = "thrown"
               ELSE /\ log' = <<IssuesOk>> \o
                            [k \in DOMAIN logins |->
                                IF lookups[logins[k]].kind = "rejected"
                                THEN ClosedFailed ELSE ClosedOk]
                    /\ IF status.threw
                       THEN /\ result' = CatchTs(Error("Failed to fetch issues: ${error.message}", "")).result
                            /\ pc' = "thrown"
                       ELSE /\ result' = Result(FALSE, "Team Status", status)
                            /\ pc' = "status"
    /\ UNCHANGED <<items, events, workload, zone, eventsByDate, request, cursor, pages>>

NextStatus == GetTeamStatusTs

\* categorizeWorkload of src/tools/workload-analysis.ts
categorizeWorkload(activeIssues) ==
    IF activeIssues <= 2 THEN "light"
    ELSE IF activeIssues <= 4 THEN "moderate"
    ELSE IF activeIssues <= 6 THEN "heavy"
    ELSE "overloaded"

\* the callback of assigneeLogins.map
WorkloadMember(login, issues) ==
    LET Assigned(issue) == \E j \in DOMAIN issue.assignees : issue.assignees[j] = login
        activeIssues == Len(SelectSeq(issues, Assigned))
    IN  [login |-> login, activeIssues |-> activeIssues,
         workloadLevel |-> categorizeWorkload(activeIssues)]

\* members.sort((a, b) => a.activeIssues - b.activeIssues), a stable sort
RECURSIVE InsertByFewestIssues(_, _)
InsertByFewestIssues(s, x) ==
    IF s = <<>> THEN <<x>>
    ELSE IF s[Len(s)].activeIssues <= x.activeIssues THEN Append(s, x)
    ELSE Append(InsertByFewestIssues(SubSeq(s, 1, Len(s) - 1), x), s[Len(s)])

RECURSIVE SortByFewestIssues(_)
SortByFewestIssues(s) ==
    IF s = <<>> THEN <<>>
    ELSE InsertByFewestIssues(SortByFewestIssues(SubSeq(s, 1, Len(s) - 1)), s[Len(s)])

\* analyzeWorkload on the issues of getAllTeamIssues: members and leastBusy
analyzeWorkload(data) ==
    LET issues == SelectSeq(data, NotPullRequest)
        assigneeLogins == getUniqueAssignees(<<>>, issues, 1)
        members == SortByFewestIssues(
                        [k \in DOMAIN assigneeLogins |->
                            WorkloadMember(assigneeLogins[k], issues)])
        IsLight(m) == m.workloadLevel = "light"
        light == SelectSeq(members, IsLight)
    IN  [members |-> members,
         leastBusy |-> [k \in DOMAIN light |-> light[k].login]]

\* members.reduce((prev, current) =>
\*     prev.activeIssues < current.activeIssues ? prev : current), from the
\* first member on
RECURSIVE ReduceFewest(_, _, _)
ReduceFewest(members, k, prev) ==
    IF k > Len(members) THEN prev
    ELSE ReduceFewest(members, k + 1,
                      IF prev.activeIssues < members[k].activeIssues
                      THEN prev ELSE members[k])

\* findBestAssignee: reduce without an initial value throws a TypeError on
\* an empty array
findBestAssignee(data) ==
    LET analysis == analyzeWorkload(data)
    IN  IF Len(analysis.leastBusy) > 0
        THEN [threw |-> FALSE, login |-> analysis.leastBusy[1]]
        ELSE IF analysis.members = <<>>
        THEN [threw |-> TRUE, login |-> <<>>]
        ELSE [threw |-> FALSE,
              login |-> ReduceFewest(analysis.members, 2, analysis.members[1]).login]

\* issues of a repository whose only difference is who they are assigned to
BacklogIssues ==
    {RestIssue("open", a, NoMilestone, NullStr, FALSE) :
        a \in {<<alice>>, <<bob>>, <<bob, alice>>, <<>>}}
    \cup {RestIssue("open", <<alice>>, NoMilestone, NullStr, TRUE)}

BacklogLists == UNION {[1..n -> BacklogIssues] : n \in 0..MaxBacklog}

\* the find_best_assignee call of src/index.ts; a login is never the empty
\* text, so the falsy bestAssignee of the handler is null
FindBestAssigneeTs ==
    /\ pc = "request"
    /\ \E fetch \in {IssuesOk, IssuesFailed} :
        LET bestAssignee == findBestAssignee(items)
        IN  /\ log' = <<fetch>>
            /\ IF fetch = IssuesFailed
               THEN /\ result' = CatchTs(Error("Failed to fetch issues: ${error.message}", "")).result
                    /\ pc' = "thrown"
               ELSE IF bestAssignee.threw
               THEN /\ result' = CatchTs(Error("Reduce of empty array with no initial value", "")).result
                    /\ pc' = "thrown"
               ELSE IF bestAssignee.login = <<>>
               THEN /\ result' = Result(FALSE, "No suitable assignee found", <<>>)
                    /\ pc' = "assigned"
               ELSE /\ result' = Result(FALSE, "Best assignee for new tasks: ${bestAssignee}",
                                        bestAssignee.login)
                    /\ pc' = "assigned"
    /\ UNCHANGED <<items, events, now, workload, zone, eventsByDate, request, cursor, pages>>

NextAssign == FindBestAssigneeTs

InitAssign ==
    /\ Idle
    /\ zone = UTC
    /\ items \in BacklogLists

InitStatus ==
    /\ Idle
    /\ zone = UTC
    /\ items \in OpenIssueLists

InitCalendar ==
    /\ Idle
    /\ zone \in Zones
    /\ items \in CalendarItemLists

Spec == Init /\ [][Next]_vars

SpecTransform == InitTransform /\ [][Next]_vars

SpecTeam == InitTeam /\ [][NextTeam]_vars

SpecBest == InitTeam /\ [][NextBest]_vars

SpecCalendar == InitCalendar /\ [][NextCalendar]_vars

SpecAssign == InitAssign /\ [][NextAssign]_vars

SpecSchedule == InitCalendar /\ [][NextSchedule]_vars

SpecFetch == InitFetch /\ [][NextFetch]_vars

SpecNormalize == InitNormalize /\ [][NextNormalize]_vars

SpecDispatch == InitDispatch /\ [][NextDispatch]_vars

SpecStatus == InitStatus /\ [][NextStatus]_vars

---------------------------------------------------------------------------
(* Vocabulary of the properties *)

\* the item of the call and, once transformed, its event
Item == items[1]

Transformed == pc = "events" /\ Len(events) = 1

NameHas(fieldValue, sub) == includes(toLowerCase(fieldValue.field.name), sub)

NamedStart(fieldValue) == NameHas(fieldValue, <<"s","t","a","r","t">>)

NamedEndOrDue(fieldValue) ==
    NameHas(fieldValue, <<"e","n","d">>) \/ NameHas(fieldValue, <<"d","u","e">>)

Dated(fieldValue) == fieldValue.date.kind = "iso"

\* positions of the field values that carry a date under a name with "start"
StartFields(item) ==
    {i \in DOMAIN item.fieldValues :
        NamedStart(item.fieldValues[i]) /\ Dated(item.fieldValues[i])}

\* positions of the field values that carry a date under a name with "end" or "due"
EndOrDueFields(item) ==
    {i \in DOMAIN item.fieldValues :
        NamedEndOrDue(item.fieldValues[i]) /\ Dated(item.fieldValues[i])}

\* those of them whose name does not also contain "start"
EndOnlyFields(item) == EndOrDueFields(item) \ StartFields(item)

DatedFields(item) == {i \in DOMAIN item.fieldValues : Dated(item.fieldValues[i])}

FieldDate(item, i) == NewDate(item.fieldValues[i].date)

First(S) == CHOOSE i \in S : \A j \in S : i <= j

Last(S) == CHOOSE i \in S : \A j \in S : j <= i

\* pairs <<i, j>>: the marker at i, a parenthesised group at j behind it on
\* the same line
MarkerGroups(body, marker) ==
    {p \in (DOMAIN body) \X (DOMAIN body) :
        /\ p[1] < p[2]
        /\ body[p[1]].t = marker
        /\ body[p[2]].t = "paren"
        /\ \A k \in (p[1] + 1)..(p[2] - 1) : body[k].t # "nl"}

\* the body holds the marker once, followed by plain text and then (D)
HoldsMarkerDate(body, marker, D) ==
    /\ Cardinality({i \in DOMAIN body : body[i].t = marker}) = 1
    /\ \E p \in MarkerGroups(body, marker) :
        /\ body[p[2]].s = D
        /\ \A k \in (p[1] + 1)..(p[2] - 1) : body[k].t = "text"

BodyGroups == {BodyStart, BodyEnd, TextStr}

---------------------------------------------------------------------------
(* C1 *)

\* C1: an item with a date-carrying field value whose lower-cased name
\* contains "start" gets its startDate from such a field value (from the
\* one there is, when there is one), whatever the body and created_at hold.
C1_StartDateFromField ==
    (pc = "events" /\ StartFields(Item) # {}) =>
        /\ Len(events) = 1
        /\ \E i \in StartFields(Item) : events[1].startDate = FieldDate(Item, i)
        /\ events[1].startDate.valid

\* a start field next to a body marker and a creation date that differ from it
C1_Witness ==
    /\ Transformed
    /\ Cardinality(StartFields(Item)) = 1
    /\ MarkerGroups(Item.content.body, "start") # {}
    /\ Item.content.created_at = CreatedEarly
    /\ events[1].startDate = NewDate(IsoStr(2025, 9, 10, 0))

---------------------------------------------------------------------------
(* C2 *)

---------------------------------------------------------------------------
(* C3 *)

\* C3: without a date-carrying start field and without a Start Date marker
\* that a parenthesised group follows, startDate is the date of created_at:
\* no milestone, end field or End Date marker supplies it.
C3_StartDateFromCreatedAt ==
    (/\ pc = "events"
     /\ StartFields(Item) = {}
     /\ MarkerGroups(Item.content.body, "start") = {}) =>
        /\ Len(events) = 1
        /\ events[1].startDate = NewDate(Item.content.created_at)

\* every end-date source is present and the start still is the creation date
C3_Witness ==
    /\ Transformed
    /\ StartFields(Item) = {}
    /\ MarkerGroups(Item.content.body, "start") = {}
    /\ EndOnlyFields(Item) # {}
    /\ MarkerGroups(Item.content.body, "end") # {}
    /\ Item.content.milestone = Milestone(DueLate)
    /\ events[1].startDate = NewDate(CreatedEarly)

---------------------------------------------------------------------------
(* C4 *)

\* C4: body markers fill exactly the slots the field values left open.
\* With no field values, Start Date ... (D1) and End Date ... (D2) give
\* startDate = D1 and endDate = D2; with one slot taken from a field value,
\* that slot keeps the field's date and the other takes its marker's date.
C4_BodyFillsOpenSlots ==
    pc = "events" =>
        \A D1 \in BodyGroups, D2 \in BodyGroups :
            (/\ HoldsMarkerDate(Item.content.body, "start", D1)
             /\ HoldsMarkerDate(Item.content.body, "end", D2)) =>
                /\ Len(events) = 1
                /\ Item.fieldValues = <<>> =>
                    /\ events[1].startDate = NewDate(D1)
                    /\ events[1].endDate = NewDate(D2)
                /\ (StartFields(Item) # {} /\ EndOnlyFields(Item) = {}) =>
                    /\ \E i \in StartFields(Item) : events[1].startDate = FieldDate(Item, i)
                    /\ events[1].endDate = NewDate(D2)
                /\ (StartFields(Item) = {} /\ EndOnlyFields(Item) # {}) =>
                    /\ events[1].startDate = NewDate(D1)
                    /\ \E i \in EndOnlyFields(Item) : events[1].endDate = FieldDate(Item, i)

\* the end slot comes from a field value, the start slot from its marker
C4_Witness ==
    /\ Transformed
    /\ HoldsMarkerDate(Item.content.body, "start", BodyStart)
    /\ HoldsMarkerDate(Item.content.body, "end", BodyEnd)
    /\ StartFields(Item) = {}
    /\ EndOnlyFields(Item) # {}
    /\ events[1].startDate = NewDate(BodyStart)
    /\ events[1].endDate # NewDate(BodyEnd)

---------------------------------------------------------------------------
(* C5 *)

\* the end date the fallback order yields when the positions in fields are
\* those of the field values that count as end/due fields
EndDateByOrder(item, fields) ==
    IF fields # {}
    THEN FieldDate(item, Last(fields))
    ELSE IF MarkerGroups(item.content.body, "end") # {}
    THEN NewDate(Match(item.content.body, "end").group)
    ELSE IF item.content.milestone.present /\ item.content.milestone.due_on.kind # "null"
    THEN NewDate(item.content.milestone.due_on)
    ELSE NullDate

\* C5 as stated: endDate is the date of an end/due field (any date-carrying
\* field whose name contains "end" or "due"), else of the End Date marker,
\* else of the milestone, else null.
C5_EndDateOrder ==
    pc = "events" =>
        /\ Len(events) = 1
        /\ events[1].endDate = EndDateByOrder(Item, EndOrDueFields(Item))

\* C5 amended: the same order, where the end/due fields are the
\* date-carrying fields whose name contains "end" or "due" and does not
\* contain "start"; endDate is null exactly when no source exists, and the
\* creation date is never used.
C5_EndDateOrderAmended ==
    pc = "events" =>
        /\ Len(events) = 1
        /\ events[1].endDate = EndDateByOrder(Item, EndOnlyFields(Item))
        /\ events[1].endDate = NullDate <=>
            /\ EndOnlyFields(Item) = {}
            /\ MarkerGroups(Item.content.body, "end") = {}
            /\ Item.content.milestone \in {NoMilestone, Milestone(NullStr)}

\* a field named for start and end at once leaves the end slot to the milestone
C5_Witness ==
    /\ Transformed
    /\ EndOrDueFields(Item) # {}
    /\ EndOnlyFields(Item) = {}
    /\ MarkerGroups(Item.content.body, "end") = {}
    /\ Item.content.milestone = Milestone(DueLate)
    /\ events[1].endDate = NewDate(DueLate)

---------------------------------------------------------------------------
(* C6 *)

\* C6 as stated: the single date-carrying field of an item, if its name
\* contains "end" or "due", supplies endDate whatever else the name contains.
C6_EndOrDueFieldSuppliesEnd ==
    (pc = "events" /\ Cardinality(DatedFields(Item)) = 1) =>
        \A i \in DatedFields(Item) :
            NamedEndOrDue(Item.fieldValues[i]) =>
                Len(events) = 1 /\ events[1].endDate = FieldDate(Item, i)

\* C6 amended: it supplies endDate unless its name also contains "start";
\* then it supplies startDate and endDate falls to the later sources.
C6_EndOrDueFieldAmended ==
    (pc = "events" /\ Cardinality(DatedFields(Item)) = 1) =>
        \A i \in DatedFields(Item) :
            NamedEndOrDue(Item.fieldValues[i]) =>
                /\ Len(events) = 1
                /\ IF NamedStart(Item.fieldValues[i])
                   THEN /\ events[1].startDate = FieldDate(Item, i)
                        /\ events[1].endDate = EndDateByOrder(Item, {})
                   ELSE events[1].endDate = FieldDate(Item, i)

\* one field named "Due", with a body marker and a milestone that lose to it
C6_Witness ==
    /\ Transformed
    /\ Cardinality(DatedFields(Item)) = 1
    /\ \E i \in DatedFields(Item) :
        /\ Item.fieldValues[i].field.name = FieldDue
        /\ events[1].endDate = FieldDate(Item, i)
    /\ MarkerGroups(Item.content.body, "end") # {}
    /\ Item.content.milestone = Milestone(DueLate)

---------------------------------------------------------------------------
(* C7 *)

\* C7: every event of the result has a usable start date (a Date that holds
\* a time value); an issue without one is left out of the result.
C7_StartDateUsable ==
    pc = "events" =>
        \A i \in DOMAIN events :
            events[i].startDate.tag = "date" /\ events[i].startDate.valid

---------------------------------------------------------------------------
(* Vocabulary of the workload properties *)

LoginsOf(event) == {event.assignees[i] : i \in DOMAIN event.assignees}

\* the events that are not closed and list the login
OpenEventsOf(login) ==
    {i \in DOMAIN events : events[i].status # "closed" /\ login \in LoginsOf(events[i])}

AssignedLogins == UNION {LoginsOf(events[i]) : i \in DOMAIN events}

EntriesOf(login) == {k \in DOMAIN workload : workload[k].login = login}

EndsBefore(event, t) ==
    event.endDate.tag = "date" /\ event.endDate.valid /\ event.endDate.time < t.time

StartsAfter(event, t) == event.startDate.valid /\ event.startDate.time > t.time

NotClosed(event) == event.status # "closed"

---------------------------------------------------------------------------
(* C8 *)

\* C8: every login that a non-closed event lists has exactly one entry, whose
\* activeIssues and totalWorkload are the number of those events, whose
\* overdueIssues counts those that end before now and whose upcomingIssues
\* counts those that start after now.
C8_CountersPerAssignee ==
    pc = "workload" =>
        \A login \in AssignedLogins :
            OpenEventsOf(login) # {} =>
                /\ Cardinality(EntriesOf(login)) = 1
                /\ \A k \in EntriesOf(login) :
                    /\ workload[k].activeIssues = Cardinality(OpenEventsOf(login))
                    /\ workload[k].totalWorkload = Cardinality(OpenEventsOf(login))
                    /\ workload[k].overdueIssues =
                        Cardinality({i \in OpenEventsOf(login) : EndsBefore(events[i], now)})
                    /\ workload[k].upcomingIssues =
                        Cardinality({i \in OpenEventsOf(login) : StartsAfter(events[i], now)})

\* The counters of C8 hold for every login that is not the name of a
\* property inherited from Object.prototype.
CountersForOwnLogins ==
    pc = "workload" =>
        \A login \in AssignedLogins \ ObjectPrototypeKeys :
            OpenEventsOf(login) # {} =>
                /\ Cardinality(EntriesOf(login)) = 1
                /\ \A k \in EntriesOf(login) :
                    /\ workload[k].activeIssues = Cardinality(OpenEventsOf(login))
                    /\ workload[k].totalWorkload = Cardinality(OpenEventsOf(login))
                    /\ workload[k].overdueIssues =
                        Cardinality({i \in OpenEventsOf(login) : EndsBefore(events[i], now)})
                    /\ workload[k].upcomingIssues =
                        Cardinality({i \in OpenEventsOf(login) : StartsAfter(events[i], now)})

---------------------------------------------------------------------------
(* C9 *)

\* C9: closed events change nothing: the ranking is the ranking of the
\* events that are not closed, and a login that only closed events list has
\* no entry.
C9_ClosedEventsInvisible ==
    pc = "workload" =>
        /\ workload = analyzeTeamWorkload(SelectSeq(events, NotClosed), now)
        /\ \A login \in AssignedLogins :
            OpenEventsOf(login) = {} => EntriesOf(login) = {}

\* bob is only on a closed event that is overdue and upcoming; alice is ranked
C9_Witness ==
    /\ pc = "workload"
    /\ bob \in AssignedLogins
    /\ OpenEventsOf(bob) = {}
    /\ \E i \in DOMAIN events :
        /\ bob \in LoginsOf(events[i])
        /\ EndsBefore(events[i], now)
        /\ StartsAfter(events[i], now)
    /\ EntriesOf(alice) # {}
    /\ EntriesOf(bob) = {}

---------------------------------------------------------------------------
(* C10 *)

\* C10: the ranking ascends by totalWorkload from each entry to the next.
C10_RankingAscending ==
    pc = "workload" =>
        \A k \in 1..(Len(workload) - 1) :
            workload[k].totalWorkload <= workload[k + 1].totalWorkload

\* a ranking that the sort had to reorder
C10_Witness ==
    /\ pc = "workload"
    /\ Len(workload) >= 2
    /\ workload[1].totalWorkload < workload[Len(workload)].totalWorkload
    /\ workload # ObjectValues(ForEachEvent(<<>>, events, 1, now))


---------------------------------------------------------------------------
(* C11 *)

\* where a login stands in the scan: <<event, assignee>> of the open events
Positions(login) ==
    {<<i, j>> \in UNION {{i} \X DOMAIN events[i].assignees : i \in DOMAIN events} :
        /\ NotClosed(events[i])
        /\ events[i].assignees[j] = login}

PositionBefore(p, q) == p[1] < q[1] \/ (p[1] = q[1] /\ p[2] < q[2])

FirstEncounter(login) ==
    CHOOSE p \in Positions(login) :
        \A q \in Positions(login) : p = q \/ PositionBefore(p, q)

\* C11: in the ranking, entries of equal totalWorkload stand in the order
\* in which their logins were first met while scanning events and assignees.
C11_TiesInEncounterOrder ==
    pc = "workload" =>
        \A k \in DOMAIN workload : \A l \in DOMAIN workload :
            (k < l /\ workload[k].totalWorkload = workload[l].totalWorkload)
                => PositionBefore(FirstEncounter(workload[k].login),
                                  FirstEncounter(workload[l].login))


---------------------------------------------------------------------------
(* C12 *)

\* C12: find_best_assignee recommends the first entry of the ranking, and no
\* entry of the ranking has a strictly smaller totalWorkload than it.
C12_RecommendsLightest ==
    (pc = "best" /\ workload # <<>>) =>
        /\ result.data = workload[1]
        /\ \A k \in DOMAIN workload :
                ~(workload[k].totalWorkload < result.data.totalWorkload)

\* bob met first with the heavier load, alice recommended
C12_Witness ==
    /\ pc = "best"
    /\ Len(workload) = 2
    /\ result.data.login = alice
    /\ workload[2].login = bob
    /\ result.data.totalWorkload < workload[2].totalWorkload
    /\ PositionBefore(FirstEncounter(bob), FirstEncounter(alice))


---------------------------------------------------------------------------
(* C13, C14, C15 *)

\* the calendar day of an instant, in the zone of the process
DayOf(date) == (date.time + zone) \div 24

DayKey(day) ==
    LET c == CivilFromDays(day) IN <<c.y, c.m, c.d>>

\* first and last day of the month shown: the month of the call's instant
TargetFirstDay ==
    LET c == CivilFromDays(DayOf(now)) IN DaysFromCivil(c.y, c.m, 1)

TargetLastDay ==
    LET c == CivilFromDays(DayOf(now))
    IN  IF c.m = 12 THEN DaysFromCivil(c.y + 1, 1, 1) - 1
                    ELSE DaysFromCivil(c.y, c.m + 1, 1) - 1

InTargetMonth(day) == TargetFirstDay <= day /\ day <= TargetLastDay

\* the day keys an event stands under, and how often under one of them
KeysOf(i) ==
    {eventsByDate[k].dateKey : k \in
        {k \in DOMAIN eventsByDate :
            \E j \in DOMAIN eventsByDate[k].events : eventsByDate[k].events[j] = i}}

TimesUnder(i, dateKey) ==
    Cardinality({<<k, j>> \in UNION {{k} \X DOMAIN eventsByDate[k].events :
                                        k \in DOMAIN eventsByDate} :
                    /\ eventsByDate[k].dateKey = dateKey
                    /\ eventsByDate[k].events[j] = i})

\* the call came back with a calendar
CalendarShown == pc = "calendar" /\ ~result.isError

SingleDay(event) ==
    \/ event.endDate = NullDate
    \/ /\ event.startDate.valid
       /\ event.endDate.valid
       /\ event.startDate.time = event.endDate.time

Ranged(event) ==
    /\ event.startDate.valid
    /\ event.endDate.valid
    /\ event.startDate.time # event.endDate.time

Max(a, b) == IF a >= b THEN a ELSE b

Min(a, b) == IF a <= b THEN a ELSE b

\* C13: an event with no endDate, or with endDate at the instant of its
\* startDate, stands under exactly one day key, the calendar day of its
\* startDate, when that day lies in the month shown, and under none
\* otherwise.
C13_SingleDayPlacement ==
    CalendarShown =>
        \A i \in DOMAIN events :
            SingleDay(events[i]) =>
                IF events[i].startDate.valid /\ InTargetMonth(DayOf(events[i].startDate))
                THEN /\ KeysOf(i) = {DayKey(DayOf(events[i].startDate))}
                     /\ TimesUnder(i, DayKey(DayOf(events[i].startDate))) = 1
                ELSE KeysOf(i) = {}

\* an event ending at the instant it starts stands under its one day, next
\* to a single-day event of another month that stands under none
C13_Witness ==
    /\ CalendarShown
    /\ zone # UTC
    /\ Len(events) = 2
    /\ events[1].endDate # NullDate
    /\ SingleDay(events[1])
    /\ KeysOf(1) = {<<2025, 9, 15>>}
    /\ events[2].endDate = NullDate
    /\ KeysOf(2) = {}

\* an event with a range of days that meets the month shown
Overlapping(event) ==
    /\ Ranged(event)
    /\ event.startDate.time < event.endDate.time
    /\ DayOf(event.startDate) <= TargetLastDay
    /\ TargetFirstDay <= DayOf(event.endDate)

\* C14: an event with a distinct endDate that overlaps the month shown
\* stands under every calendar day from max(startDate, monthStart) to
\* min(endDate, monthEnd), once each, and under no other day.
C14_RangePlacement ==
    CalendarShown =>
        \A i \in DOMAIN events :
            Overlapping(events[i]) =>
                /\ KeysOf(i) =
                    {DayKey(day) : day \in
                        Max(DayOf(events[i].startDate), TargetFirstDay)
                        .. Min(DayOf(events[i].endDate), TargetLastDay)}
                /\ \A dateKey \in KeysOf(i) : TimesUnder(i, dateKey) = 1

\* the event of 2025-08-30..2025-09-05 in the calendar of September 2025
C14_Witness ==
    /\ CalendarShown
    /\ DayKey(TargetFirstDay) = <<2025, 9, 1>>
    /\ \E i \in DOMAIN events :
        /\ Ranged(events[i])
        /\ DayKey(DayOf(events[i].startDate)) = <<2025, 8, 30>>
        /\ DayKey(DayOf(events[i].endDate)) = <<2025, 9, 5>>
        /\ KeysOf(i) = {<<2025, 9, d>> : d \in 1..5}

\* max(startDate, monthStart) is after min(endDate, monthEnd)
ClippedEmpty(event) ==
    \/ event.startDate.time > event.endDate.time
    \/ DayOf(event.startDate) > TargetLastDay
    \/ DayOf(event.endDate) < TargetFirstDay

\* C15: an event with a distinct endDate whose clipped range is empty is
\* skipped: it stands under no day key and no enumeration of days is tried
\* for it.
C15_EmptyRangeSkipped ==
    pc = "calendar" =>
        \A i \in DOMAIN events :
            (Ranged(events[i]) /\ ClippedEmpty(events[i])) =>
                /\ KeysOf(i) = {}
                /\ result.text # "Error: Invalid interval"


---------------------------------------------------------------------------
(* C16, C17 *)

Logged(x) == \E k \in DOMAIN log : log[k] = x

\* C16: the primary path is entered first; the secondary path is entered
\* exactly when the primary has raised an error, and once at most; after its
\* error the primary makes no further request.
C16_SingleFallback ==
    /\ log # <<>> => log[1] = PrimaryCalled
    /\ Count(log, PrimaryCalled) <= 1
    /\ Count(log, SecondaryCalled) <= 1
    /\ Logged(SecondaryCalled) <=> (\E f \in GraphQLFailures : Logged(f))
    /\ \A k \in DOMAIN log : \A l \in DOMAIN log :
            (log[k] \in GraphQLFailures /\ k < l)
                => log[l] \notin {PrimaryCalled, GraphQLOk} \cup GraphQLFailures
    /\ \A k \in DOMAIN log : \A l \in DOMAIN log :
            (log[l] \in {SearchOk, SearchFailed} /\ log[k] = SecondaryCalled) => k < l
    /\ Logged(SearchOk) \/ Logged(SearchFailed) => Logged(SecondaryCalled)

\* a call whose primary path failed on its second page and whose secondary
\* path then ran to its end
C16_Witness ==
    /\ pc = "calendar"
    /\ log = <<PrimaryCalled, GraphQLOk, GraphQLNoProject, SecondaryCalled,
               SearchOk, SearchOk>>

\* C17: a call whose primary path failed and whose search request failed
\* too ends with a result flagged isError.
C17_BothFailIsError ==
    (pc = "calendar" /\ (\E f \in GraphQLFailures : Logged(f)) /\ Logged(SearchFailed))
        => result.isError


---------------------------------------------------------------------------
(* C18, C19 *)

Dispatched == pc \in {"returned", "thrown"}

\* C18: in both entry points a failure raised in a tool call comes back as
\* a text block flagged as an error; nothing is thrown out of the handler.
C18_FailuresReturned ==
    Dispatched => pc = "returned"

\* C18 as the code has it: index.js returns the failure as a text block
\* flagged isError; src/index.ts throws it out of the handler as an McpError
\* with the code InternalError.
C18_FailuresByEntryPoint ==
    (Dispatched /\ result.isError) =>
        /\ request.entry = "index.js" => pc = "returned"
        /\ request.entry = "src/index.ts" =>
                (pc = "thrown" /\ result.data.code = "InternalError")

\* a call of src/index.ts whose request for the issues was rejected
C18_Witness ==
    /\ pc = "thrown"
    /\ request.entry = "src/index.ts"
    /\ request.name = "get_team_status"
    /\ log = <<IssuesFailed>>
    /\ result.isError
    /\ result.data.code = "InternalError"

Advertised == IF request.entry = "index.js" THEN ToolsJs ELSE ToolsTs

\* the failure says that the operation is unknown, and which one
ReportsUnknownOperation ==
    IF request.entry = "index.js"
    THEN /\ pc = "returned"
         /\ result.isError
         /\ result.data = Error("Unknown tool: ${name}", request.name)
    ELSE /\ pc = "thrown"
         /\ result.data.code = "MethodNotFound"
         /\ result.data.about = request.name

\* C19: a call of an operation that is not advertised is reported as an
\* unknown operation, by name, not as an internal failure, and no upstream
\* request is made for it; in both entry points.
C19_UnknownOperation ==
    (Dispatched /\ request.name \notin Advertised) =>
        /\ ReportsUnknownOperation
        /\ log = <<>>


---------------------------------------------------------------------------
(* C20 *)

\* the assignees whose lookup of completed issues failed, by their place
\* among the unique assignees
LookupFailed(login) ==
    LET logins == getUniqueAssignees(<<>>, SelectSeq(items, NotPullRequest), 1)
    IN  \E k \in DOMAIN logins : logins[k] = login /\ log[k + 1] = ClosedFailed

\* a status without the counts of completed issues
WithoutCompleted(status) ==
    [members |-> [k \in DOMAIN status.members |->
                    [status.members[k] EXCEPT !.completedThisWeek = 0]],
     totalActiveIssues |-> status.totalActiveIssues,
     totalDueToday |-> status.totalDueToday]

\* every lookup answered, with no issue
AllAnswered == [login \in {alice, bob} |-> [kind |-> "page", issues |-> <<>>]]

\* C20: when the issues of the team are in, getTeamStatus returns a result
\* whichever lookups of completed issues fail; a member whose lookup failed
\* has completedThisWeek = 0, and members, their order, their other fields
\* and the totals are those of a call whose lookups all succeeded.
C20_LookupFailuresSwallowed ==
    (pc \in {"status", "thrown"} /\ log # <<>> /\ log[1] = IssuesOk) =>
        /\ pc = "status"
        /\ ~result.isError
        /\ \A k \in DOMAIN result.data.members :
                LookupFailed(result.data.members[k].login)
                    => result.data.members[k].completedThisWeek = 0
        /\ WithoutCompleted(result.data)
                = WithoutCompleted(getTeamStatus(items, AllAnswered, now, zone))

\* the lookup failed for bob and found a completed issue for alice, who
\* stands first with the heavier load
C20_Witness ==
    /\ pc = "status"
    /\ Len(result.data.members) = 2
    /\ result.data.members[1].login = alice
    /\ result.data.members[1].completedThisWeek = 1
    /\ result.data.members[1].activeIssues = 2
    /\ result.data.members[1].dueToday = 1
    /\ result.data.members[2].login = bob
    /\ LookupFailed(bob)
    /\ ~LookupFailed(alice)


---------------------------------------------------------------------------
(* C21 *)

\* C21: a get_calendar_events call with its arguments absent or empty runs
\* with org "squareup", project 333, since 2025-08-01 and no assignee, and
\* the missing arguments raise no error.
C21_ArgumentsOptional ==
    (/\ Dispatched
     /\ request.entry = "index.js"
     /\ request.name = "get_calendar_events"
     /\ request.args \in {"undefined", "{}"}) =>
        /\ ~CalendarArguments(request.args).threw
        /\ CalendarArguments(request.args).org = "squareup"
        /\ CalendarArguments(request.args).project = 333
        /\ CalendarArguments(request.args).since = NewDate(IsoStr(2025, 8, 1, 0))
        /\ CalendarArguments(request.args).assignee = Undefined
        /\ result.data # Error("Cannot destructure property of undefined", "args")
        /\ log # <<>>


---------------------------------------------------------------------------
(* C22 *)

ScheduleShown == pc = "schedule" /\ ~result.isError

\* the last instant of an event: its end, or its start without a valid end
LastInstant(event) ==
    IF event.endDate.valid THEN event.endDate ELSE event.startDate

\* C22: the events get_person_schedule returns all list login among their
\* assignees and fall in the window from now to now + days (some instant of
\* the event lies in it), in ascending order of startDate; days is 7 when
\* omitted.
C22_PersonSchedule ==
    ScheduleShown =>
        LET args == request.args
            days == IF "days" \in DOMAIN args THEN args.days ELSE 7
            endDate == addDays(now, days)
        IN  /\ \A i \in DOMAIN result.data :
                /\ \E j \in DOMAIN result.data[i].assignees :
                        result.data[i].assignees[j] = args.login
                /\ DateLeq(result.data[i].startDate, endDate)
                /\ DateLeq(now, LastInstant(result.data[i]))
            /\ \A i, j \in DOMAIN result.data :
                i < j => DateLeq(result.data[i].startDate, result.data[j].startDate)


---------------------------------------------------------------------------
(* C23 *)

RECURSIVE PageItems(_, _)
PageItems(ps, k) ==
    IF k > Len(ps) THEN <<>> ELSE ps[k].items \o PageItems(ps, k + 1)

\* the primary path has not failed
PrimaryRunning == \A f \in GraphQLFailures : ~Logged(f)

\* C23: the first request of fetchProjectItemsGraphQL carries a null cursor,
\* every later one the endCursor of the response just before it; a request
\* is made only when every earlier one is answered, and none after an answer
\* with hasNextPage = false; the list gathered is the concatenation, in page
\* order, of the accepted items of the pages.
C23_PagesInSequence ==
    /\ pages # <<>> => pages[1].cursor = NullCursor
    /\ \A k \in DOMAIN pages :
        k > 1 => /\ pages[k - 1].answered
                 /\ pages[k - 1].kind = "page"
                 /\ pages[k - 1].hasNextPage
                 /\ pages[k].cursor = pages[k - 1].endCursor
    /\ pc = "awaiting" <=> (pages # <<>> /\ ~pages[Len(pages)].answered)
    /\ PrimaryRunning /\ pc \in {"graphql", "awaiting", "fetched"}
            => items = PageItems(pages, 1)

\* two pages fetched, the second one asked for with the cursor of the first
C23_Witness ==
    /\ pc = "fetched"
    /\ PrimaryRunning
    /\ Len(pages) = 2
    /\ pages[2].cursor # NullCursor
    /\ Len(items) = 2


---------------------------------------------------------------------------
(* C24 *)

\* the optional sub-objects a record lacks are empty in its normalized issue
EmptyWhereAbsent(record, issue) ==
    /\ ~record.author.present => issue.user.login = <<>>
    /\ ~record.labels.present => issue.labels = <<>>
    /\ ~record.assignees.present => issue.assignees = <<>>
    /\ ~record.milestone.present => issue.milestone = NoMilestone

\* C24: on both paths a page is normalized without a failure whatever
\* optional sub-object a record lacks: every record the path accepts (on the
\* primary path the ones with the required label, on the secondary path all
\* of them) has its normalized issue, empty where the record has nothing.
C24_MissingSubObjects ==
    /\ pc = "graphql page" =>
        /\ Len(events) = Len(SelectSeq(items, hasRequiredLabel))
        /\ \A k \in DOMAIN events :
                EmptyWhereAbsent(SelectSeq(items, hasRequiredLabel)[k], events[k])
    /\ pc = "search page" =>
        /\ ~Logged(SearchFailed)
        /\ Len(events) = Len(items)
        /\ \A k \in DOMAIN events : EmptyWhereAbsent(items[k], events[k])


---------------------------------------------------------------------------
(* C25 *)

NamedStatus(fieldValue) ==
    \/ NameHas(fieldValue, <<"s","t","a","t","u","s">>)
    \/ NameHas(fieldValue, <<"s","t","a","t","e">>)
    \/ NameHas(fieldValue, <<"p","r","o","g","r","e","s","s">>)

\* positions of the field values that carry a select-name under a name with
\* "status", "state" or "progress"
StatusFields(item) ==
    {i \in DOMAIN item.fieldValues :
        NamedStatus(item.fieldValues[i]) /\ item.fieldValues[i].name # ""}

\* the item without them
WithoutStatusFields(item) ==
    LET IsOther(fieldValue) == ~(NamedStatus(fieldValue) /\ fieldValue.name # "")
    IN  [item EXCEPT !.fieldValues = SelectSeq(item.fieldValues, IsOther)]

\* the dates of the event are those of the item without its status fields
DatesIgnoreStatus ==
    /\ Len(events) = 1
    /\ events[1].startDate = TransformItem(WithoutStatusFields(Item)).startDate
    /\ events[1].endDate = TransformItem(WithoutStatusFields(Item)).endDate

---------------------------------------------------------------------------
(* C26 *)

\* the number a decimal text stands for
RECURSIVE TextNumber(_)
TextNumber(text) ==
    IF text = <<>> THEN 0
    ELSE TextNumber(SubSeq(text, 1, Len(text) - 1)) * 10 + DigitValue(text[Len(text)])

---------------------------------------------------------------------------
(* C27 *)

\* the (non-closed event, assignee) pairs of the events
OpenPairs ==
    {<<i, j>> \in (DOMAIN events) \X (1..2) :
        /\ j \in DOMAIN events[i].assignees
        /\ events[i].status # "closed"}

\* the sum of totalWorkload over the entries from k on
RECURSIVE TotalFrom(_)
TotalFrom(k) ==
    IF k > Len(workload) THEN 0 ELSE workload[k].totalWorkload + TotalFrom(k + 1)

\* C27: in every entry totalWorkload = activeIssues >= 1 and overdueIssues
\* and upcomingIssues lie between 0 and activeIssues; no two entries share a
\* login; the totalWorkload of all entries adds up to the number of
\* (non-closed event, assignee) pairs.
C27_WorkloadCounters ==
    pc = "workload" =>
        /\ \A k \in DOMAIN workload :
            /\ workload[k].totalWorkload = workload[k].activeIssues
            /\ workload[k].activeIssues >= 1
            /\ workload[k].overdueIssues \in 0..workload[k].activeIssues
            /\ workload[k].upcomingIssues \in 0..workload[k].activeIssues
        /\ \A k, l \in DOMAIN workload :
            workload[k].login = workload[l].login => k = l
        /\ TotalFrom(1) = Cardinality(OpenPairs)


---------------------------------------------------------------------------
(* C28 *)

TargetDayKeys == {DayKey(day) : day \in TargetFirstDay..TargetLastDay}

\* C28: after the bucketing every day key is a day of the month shown, no
\* day's list holds an event twice, and the events of a day's list stand in
\* the order of the event list.
C28_Buckets ==
    pc = "calendar" =>
        \A k \in DOMAIN eventsByDate :
            /\ eventsByDate[k].dateKey \in TargetDayKeys
            /\ \A i, j \in DOMAIN eventsByDate[k].events :
                i < j => eventsByDate[k].events[i] < eventsByDate[k].events[j]
            /\ \A l \in DOMAIN eventsByDate :
                    eventsByDate[l].dateKey = eventsByDate[k].dateKey => l = k

\* two events share a day, and one of them runs past the end of the month
C28_Witness ==
    /\ CalendarShown
    /\ \E k \in DOMAIN eventsByDate : Len(eventsByDate[k].events) = 2
    /\ \E i \in DOMAIN events :
        /\ events[i].endDate.valid
        /\ DayOf(events[i].endDate) > TargetLastDay
        /\ KeysOf(i) # {}


---------------------------------------------------------------------------
(* C29 *)

\* C29: the items of a fetch come from one path: once the primary path has
\* failed, on whatever page, the list holds items of the search only, each
\* without field values, and nothing of the earlier pages; without such a
\* failure it holds items of the primary path only.
C29_OneTransport ==
    IF PrimaryRunning
    THEN \A k \in DOMAIN items : items[k] \in PrimaryItems
    ELSE \A k \in DOMAIN items :
            /\ items[k] \in SecondaryItems
            /\ items[k].fieldValues = <<>>

\* the primary path failed on its second page, after a first page with an
\* item, and the list returned holds the item of the search alone
C29_Witness ==
    /\ pc = "fetched"
    /\ Len(pages) = 2
    /\ pages[1].items # <<>>
    /\ pages[2].answered /\ pages[2].kind # "page"
    /\ Len(items) = 1
    /\ items[1] \in SecondaryItems


---------------------------------------------------------------------------
(* C30 *)

\* the call got its issues and came to an end
AssigneeAsked == pc \in {"assigned", "thrown"} /\ log = <<IssuesOk>>

\* logins and numbers of issues of the assignees of the open issues
TeamLogins ==
    {items[i].assignees[j] : <<i, j>> \in
        {<<i, j>> \in (DOMAIN items) \X (1..2) :
            NotPullRequest(items[i]) /\ j \in DOMAIN items[i].assignees}}

IssuesOf(login) ==
    Cardinality({i \in DOMAIN items :
        /\ NotPullRequest(items[i])
        /\ \E j \in DOMAIN items[i].assignees : items[i].assignees[j] = login})

\* with an assignee, the answer names one with the fewest issues
BestIsLightest ==
    (AssigneeAsked /\ TeamLogins # {}) =>
        /\ pc = "assigned"
        /\ ~result.isError
        /\ result.data \in TeamLogins
        /\ \A login \in TeamLogins : IssuesOf(result.data) <= IssuesOf(login)

\* C30: with at least one assignee find_best_assignee of src/index.ts names
\* a member with the fewest active issues; without any, findBestAssignee
\* gives null and the call answers "No suitable assignee found" and does
\* not fail.
C30_BestOrNone ==
    /\ BestIsLightest
    /\ (AssigneeAsked /\ TeamLogins = {}) =>
        /\ pc = "assigned"
        /\ ~result.isError
        /\ result.text = "No suitable assignee found"

===========================================================================
